---- MODULE Spec2Model ----
(***************************************************************************)
(* Model of the oxijuice lazy-sequence combinators: the pull protocol      *)
(* (next / return / throw), the source adapters, the transformation        *)
(* stages and the terminal operations of iter.ts and stream.ts.            *)
(*                                                                         *)
(* A producer is a nested record: a stage holds the state of its upstream  *)
(* in its `iter` field (ZipIter: `iters`), exactly as a stage object owns  *)
(* its upstream iterator.  Every protocol call is a pure operator that     *)
(* returns the producer after the call together with the IteratorResult.   *)
(* The field `calls` of every producer is a history counter of the         *)
(* protocol calls that producer has received; `nF` counts the invocations  *)
(* of a stage's user callback.                                             *)
(*                                                                         *)
(* The async methods of stream.ts are modelled a second time, step by      *)
(* step: tasks holds one frame per call of an async method, and a frame    *)
(* runs from one await to the next in one step.                            *)
(***************************************************************************)
EXTENDS Integers, Sequences, FiniteSets, TLC

VARIABLES cfg, prod, hist, term, tasks

vars == <<cfg, prod, hist, term, tasks>>

(***************************************************************************)
(* Bounds of the model.                                                    *)
(***************************************************************************)
MaxLen == 2        \* longest foreign collection of the chain specification
MaxDepth == 2      \* stages stacked on a source
MaxCalls == 3      \* protocol calls a consumer issues in one behaviour
MaxTake == 1       \* largest count handed to take()
MaxZipLen == 5     \* longest collection handed to zip
MaxVal == 4        \* largest element of a filtered collection
MaxFilterLen == 4  \* longest filtered collection
MaxAggLen == 3     \* longest aggregated collection
MaxRange == 5      \* largest bound handed to range() and irange()
MaxDrainLen == 3   \* longest generator drained through take, and largest such count
MaxNth == 5        \* largest index handed to nth()
MaxAsyncLen == 2   \* longest collection under a step-by-step async chain
MaxBoolLen == 3    \* longest collection of booleans
MaxFindLen == 3    \* longest collection searched by find / findMap
MaxFilterMapLen == 2 \* longest collection under filterMap
MaxOverlapTake == 2  \* largest count of an async take with overlapping calls
MaxOverlapCalls == 3 \* calls a consumer issues on it without awaiting
MaxAsyncCalls == 2 \* calls a consumer issues on a step-by-step async chain

(***************************************************************************)
(* JavaScript values.                                                      *)
(***************************************************************************)
Undefined == [ty |-> "undefined"]
Num(n) == [ty |-> "number", n |-> n]
Arr(s) == [ty |-> "array", items |-> s]
NaN == [ty |-> "NaN"]
Bool(b) == [ty |-> "boolean", b |-> b]
IsNum(v) == v.ty = "number"

\* an omitted optional argument / an argument that is given
NoArg == <<>>
Arg(x) == <<x>>

\* a number given as hi * 2^16 + lo, 0 <= lo < 2^16, so that arguments
\* beyond the int32 range can be written down
Wide(hi, lo) == [hi |-> hi, lo |-> lo]
WideOf(n) == Wide(0, n)

\* `0 | x`: ToInt32 of a number
ToInt32(w) ==
    LET h == w.hi % 65536
    IN  (IF h >= 32768 THEN h - 65536 ELSE h) * 65536 + w.lo

MathMax(a, b) == IF a >= b THEN a ELSE b
MathMin(a, b) == IF a <= b THEN a ELSE b

(***************************************************************************)
(* IteratorResult.  A call that raises has err # NoErr.                    *)
(***************************************************************************)
NoErr == "none"
IterResult(done, value) == [done |-> done, value |-> value, err |-> NoErr]
Raised(e) == [done |-> FALSE, value |-> Undefined, err |-> e]
Outcome(p, res) == [p |-> p, res |-> res]

NoCalls == [next |-> 0, ret |-> 0, thr |-> 0]

(***************************************************************************)
(* User callbacks handed to map / filter / filterMap.                      *)
(***************************************************************************)
MapFns == {"inc"}
Preds == {"even", "lt3"}
OptFns == {"halfEven"}

\* the failure a callback raises
Failure == "F"
\* the element the raising callbacks refuse
Refused == Num(2)

\* f of MapIter: x => x + 1, and
\* x => { if (x === 2) throw F; return x + 1 }
MapFn(f, x) ==
    IF f = "failOn2" /\ x = Refused THEN [value |-> Undefined, err |-> Failure]
    ELSE IF IsNum(x) THEN [value |-> Num(x.n + 1), err |-> NoErr]
    ELSE [value |-> NaN, err |-> NoErr]

\* f of FilterIter: x => x % 2 === 0, x => x < 3, and
\* x => { if (x === 2) throw F; return x % 2 === 0 }
Pred(f, x) ==
    IF f = "failOn2" /\ x = Refused THEN [value |-> FALSE, err |-> Failure]
    ELSE IF f \in {"even", "failOn2"}
    THEN [value |-> IsNum(x) /\ x.n % 2 = 0, err |-> NoErr]
    ELSE [value |-> IsNum(x) /\ x.n < 3, err |-> NoErr]

\* f of FilterMapIter: x => x % 2 === 0 ? Some(x / 2) : None,
\* x => x > 0 ? Some(x) : None, and
\* x => { if (x === 2) throw F; return x % 2 === 0 ? Some(x / 2) : None }
OptFn(f, x) ==
    IF f = "failOn2" /\ x = Refused
    THEN [some |-> FALSE, value |-> Undefined, err |-> Failure]
    ELSE IF f = "positive"
    THEN [some |-> IsNum(x) /\ x.n > 0, value |-> x, err |-> NoErr]
    ELSE IF IsNum(x) /\ x.n % 2 = 0
    THEN [some |-> TRUE, value |-> Num(x.n \div 2), err |-> NoErr]
    ELSE [some |-> FALSE, value |-> Undefined, err |-> NoErr]

(***************************************************************************)
(* Foreign iterators: what a[Symbol.iterator]() hands to a stage.          *)
(***************************************************************************)
\* the iterator of an Array: next only
ArrayIterator(items) ==
    [kind |-> "ArrayIterator", items |-> items, pos |-> 0, calls |-> NoCalls]

\* a generator object, function*(){ for (x of items) yield x }, and with
\* fin: function*(){ try { for (x of items) yield x } finally { yield FinVal } }
FinVal == Num(0)
Generator(items, fin) ==
    [kind |-> "Generator", items |-> items, pos |-> 0, fin |-> fin,
     st |-> "start", pend |-> "normal", pendVal |-> Undefined,
     pendErr |-> NoErr, calls |-> NoCalls]

ArrayNext(p) ==
    IF p.pos < Len(p.items)
    THEN Outcome([p EXCEPT !.pos = @ + 1], IterResult(FALSE, p.items[p.pos + 1]))
    ELSE Outcome(p, IterResult(TRUE, Undefined))

GenFinish(p) == [p EXCEPT !.st = "finished"]

GeneratorNext(p) ==
    CASE p.st \in {"start", "try"} ->
            IF p.pos < Len(p.items)
            THEN Outcome([p EXCEPT !.pos = @ + 1, !.st = "try"],
                         IterResult(FALSE, p.items[p.pos + 1]))
            ELSE IF p.fin
                 THEN Outcome([p EXCEPT !.st = "finally"], IterResult(FALSE, FinVal))
                 ELSE Outcome(GenFinish(p), IterResult(TRUE, Undefined))
      [] p.st = "finally" ->
            IF p.pend = "return" THEN Outcome(GenFinish(p), IterResult(TRUE, p.pendVal))
            ELSE IF p.pend = "throw" THEN Outcome(GenFinish(p), Raised(p.pendErr))
            ELSE Outcome(GenFinish(p), IterResult(TRUE, Undefined))
      [] p.st = "finished" -> Outcome(p, IterResult(TRUE, Undefined))

GeneratorReturn(p, value) ==
    IF p.st = "try" /\ p.fin
    THEN Outcome([p EXCEPT !.st = "finally", !.pend = "return", !.pendVal = value],
                 IterResult(FALSE, FinVal))
    ELSE Outcome(GenFinish(p), IterResult(TRUE, value))

GeneratorThrow(p, e) ==
    IF p.st = "try" /\ p.fin
    THEN Outcome([p EXCEPT !.st = "finally", !.pend = "throw", !.pendErr = e],
                 IterResult(FALSE, FinVal))
    ELSE Outcome(GenFinish(p), Raised(e))

(***************************************************************************)
(* Constructors of the library's producers.                                *)
(***************************************************************************)
\* an Array as an Iterable
Array(items) == [kind |-> "Array", items |-> items]

\* a[Symbol.iterator]() / a[Symbol.asyncIterator]()
SymbolIterator(a) ==
    CASE a.kind = "Array" -> ArrayIterator(a.items)
      [] a.kind = "IterWrapper" -> a.iter
      [] OTHER -> a

IterWrapper(a) ==
    [kind |-> "IterWrapper", iter |-> SymbolIterator(a), calls |-> NoCalls]

StreamWrapper(a) ==
    [kind |-> "StreamWrapper", iter |-> SymbolIterator(a), calls |-> NoCalls]

TakeIter(a, cnt) ==
    [kind |-> "Take", iter |-> SymbolIterator(a),
     cnt |-> MathMax(0, ToInt32(cnt)), calls |-> NoCalls]

TakeStream(a, cnt) ==
    [kind |-> "Take", iter |-> SymbolIterator(a),
     cnt |-> ToInt32(cnt), calls |-> NoCalls]

EnumerateIter(a, ctr) ==
    [kind |-> "Enumerate", iter |-> SymbolIterator(a),
     ctr |-> IF ctr = NoArg THEN 0 ELSE ctr[1], calls |-> NoCalls]

MapIter(a, f) ==
    [kind |-> "Map", iter |-> SymbolIterator(a), f |-> f, nF |-> 0,
     calls |-> NoCalls]

FilterIter(a, f) ==
    [kind |-> "Filter", iter |-> SymbolIterator(a), f |-> f, nF |-> 0,
     calls |-> NoCalls]

FilterMapIter(a, f) ==
    [kind |-> "FilterMap", iter |-> SymbolIterator(a), f |-> f, nF |-> 0,
     calls |-> NoCalls]

ZipIter(iters) ==
    [kind |-> "Zip", iters |-> [i \in DOMAIN iters |-> SymbolIterator(iters[i])],
     calls |-> NoCalls]

Range(begin, end, step) ==
    LET curr == IF end = NoArg THEN 0 ELSE begin
        e == IF end = NoArg THEN begin ELSE end[1]
    IN  [kind |-> "Range", curr |-> curr, end |-> e,
         step |-> IF step = NoArg THEN (IF curr <= e THEN 1 ELSE -1) ELSE step[1],
         calls |-> NoCalls]

RangeInclusive(begin, end, step) ==
    LET r == Range(begin, end, step)
    IN  [r EXCEPT !.end = @ + r.step]

OnceIter(value) ==
    [kind |-> "OnceIter", done |-> FALSE, value |-> value, calls |-> NoCalls]

OnceStream(value) ==
    [kind |-> "OnceStream", done |-> FALSE, value |-> value, calls |-> NoCalls]

Never == [kind |-> "Never", calls |-> NoCalls]

\* does the object have a `return` / `throw` method
HasReturn(p) == p.kind \notin {"ArrayIterator", "Range", "OnceIter", "Never"}
HasThrow(p) == p.kind \notin {"ArrayIterator", "Range", "OnceIter", "Never"}

(***************************************************************************)
(* The pull protocol.  IterNext / IterReturn / IterThrow dispatch a call   *)
(* on a producer to the method of its class and record the call.           *)
(***************************************************************************)
RECURSIVE IterNext(_), IterReturn(_, _), IterThrow(_, _)
RECURSIVE FilterNext(_), FilterMapNext(_), ZipNextFrom(_, _, _, _)
RECURSIVE ZipReturnFrom(_, _, _), ZipThrowFrom(_, _, _)

\* this.iter.next()
UpNext(p) ==
    LET up == IterNext(p.iter)
    IN  Outcome([p EXCEPT !.iter = up.p], up.res)

\* this.iter.return?.(value) ?? { done: true, value }
UpReturn(p, value) ==
    IF HasReturn(p.iter)
    THEN LET up == IterReturn(p.iter, value)
         IN  Outcome([p EXCEPT !.iter = up.p], up.res)
    ELSE Outcome(p, IterResult(TRUE, value))

\* this.iter.throw?.(e) with `throw e` for an upstream that lacks throw
UpThrowRethrows(p, e) ==
    IF HasThrow(p.iter)
    THEN LET up == IterThrow(p.iter, e)
         IN  Outcome([p EXCEPT !.iter = up.p], up.res)
    ELSE Outcome(p, Raised(e))

\* this.iter.throw?.(e) ?? { done: true, value: undefined }
UpThrow(p, e) ==
    IF HasThrow(p.iter)
    THEN LET up == IterThrow(p.iter, e)
         IN  Outcome([p EXCEPT !.iter = up.p], up.res)
    ELSE Outcome(p, IterResult(TRUE, Undefined))

WrapperNext(p) == UpNext(p)
\* IterWrapper.return that closes by pulling: this.iter.next(); { done: true, value }
WrapperReturnPulls(p, value) ==
    LET o == UpNext(p) IN Outcome(o.p, IterResult(TRUE, value))
WrapperReturn(p, value) == UpReturn(p, value)
WrapperThrow(p, e) == UpThrow(p, e)

\* TakeIter.next that tests `this.cnt < 0`
TakeNextOffByOne(p) ==
    IF p.cnt < 0 THEN Outcome(p, IterResult(TRUE, Undefined))
    ELSE UpNext([p EXCEPT !.cnt = @ - 1])

TakeNext(p) ==
    IF p.cnt <= 0 THEN Outcome(p, IterResult(TRUE, Undefined))
    ELSE UpNext([p EXCEPT !.cnt = @ - 1])

\* TakeIter.return / throw without `res.done ||= this.cnt <= 0`
TakeForceAsIs(p, up) == up
\* res.done ||= this.cnt <= 0
TakeForce(p, up) ==
    IF up.res.err # NoErr THEN up
    ELSE Outcome(up.p, [up.res EXCEPT !.done = @ \/ p.cnt <= 0])

TakeReturn(p, value) == TakeForce(p, UpReturn(p, value))
TakeThrow(p, e) == TakeForce(p, UpThrow(p, e))

\* EnumerateIter that pairs with this.ctr and never increments it
EnumerateWrapNoIncrement(up) ==
    IF up.res.err # NoErr \/ up.res.done THEN up
    ELSE Outcome(up.p, IterResult(FALSE, Arr(<<Num(up.p.ctr), up.res.value>>)))

\* res.done ? res : { value: [this.ctr++, res.value] }
EnumerateWrap(up) ==
    IF up.res.err # NoErr \/ up.res.done THEN up
    ELSE Outcome([up.p EXCEPT !.ctr = @ + 1],
                 IterResult(FALSE, Arr(<<Num(up.p.ctr), up.res.value>>)))

EnumerateNext(p) == EnumerateWrap(UpNext(p))
EnumerateReturn(p, value) == EnumerateWrap(UpReturn(p, value))
EnumerateThrow(p, e) == EnumerateWrap(UpThrow(p, e))

\* MapIter that answers with { value: this.f(res.value) } also when res.done
MapApplyAlsoWhenDone(up) ==
    IF up.res.err # NoErr THEN up
    ELSE LET y == MapFn(up.p.f, up.res.value)
             q == [up.p EXCEPT !.nF = @ + 1]
         IN  IF y.err # NoErr THEN Outcome(q, Raised(y.err))
             ELSE Outcome(q, IterResult(FALSE, y.value))

\* try { ... this.f(res.value) } catch (e) { this.iter.return?.(); throw e }
MapApplyClosesOnFailure(up) ==
    IF up.res.err # NoErr \/ up.res.done THEN up
    ELSE LET y == MapFn(up.p.f, up.res.value)
             q == [up.p EXCEPT !.nF = @ + 1]
         IN  IF y.err # NoErr THEN Outcome(UpReturn(q, Undefined).p, Raised(y.err))
             ELSE Outcome(q, IterResult(FALSE, y.value))

\* res.done ? res : { value: this.f(res.value) }
MapApply(up) ==
    IF up.res.err # NoErr \/ up.res.done THEN up
    ELSE LET y == MapFn(up.p.f, up.res.value)
             q == [up.p EXCEPT !.nF = @ + 1]
         IN  IF y.err # NoErr THEN Outcome(q, Raised(y.err))
             ELSE Outcome(q, IterResult(FALSE, y.value))

MapNext(p) == MapApply(UpNext(p))
MapReturn(p, value) == MapApply(UpReturn(p, value))
MapThrow(p, e) == MapApply(UpThrow(p, e))

\* FilterIter.next that keeps the elements for which f returns true
RECURSIVE FilterNextKeepWhenTrue(_)
FilterNextKeepWhenTrue(p) ==
    LET up == UpNext(p)
    IN  IF up.res.err # NoErr \/ up.res.done THEN up
        ELSE LET t == Pred(up.p.f, up.res.value)
                 q == [up.p EXCEPT !.nF = @ + 1]
             IN  IF t.err # NoErr THEN Outcome(q, Raised(t.err))
                 ELSE IF ~t.value THEN FilterNextKeepWhenTrue(q)
                 ELSE Outcome(q, up.res)

\* do { res = this.iter.next() } while (!res.done && this.f(res.value))
FilterNext(p) ==
    LET up == UpNext(p)
    IN  IF up.res.err # NoErr \/ up.res.done THEN up
        ELSE LET t == Pred(up.p.f, up.res.value)
                 q == [up.p EXCEPT !.nF = @ + 1]
             IN  IF t.err # NoErr THEN Outcome(q, Raised(t.err))
                 ELSE IF t.value THEN FilterNext(q)
                 ELSE Outcome(q, up.res)

\* FilterIter.return that answers itself instead of forwarding
FilterReturnNoForward(p, value) == Outcome(p, IterResult(TRUE, value))

FilterReturn(p, value) == UpReturn(p, value)
FilterThrow(p, e) == UpThrow(p, e)

FilterMapNext(p) ==
    LET up == UpNext(p)
    IN  IF up.res.err # NoErr \/ up.res.done THEN up
        ELSE LET opt == OptFn(up.p.f, up.res.value)
                 q == [up.p EXCEPT !.nF = @ + 1]
             IN  IF opt.err # NoErr THEN Outcome(q, Raised(opt.err))
                 ELSE IF opt.some THEN Outcome(q, IterResult(FALSE, opt.value))
                 ELSE FilterMapNext(q)

\* FilterMapIter.return / throw that go on pulling when f returns None
FilterMapForcePullsAgain(up, dflt) ==
    IF up.res.err # NoErr \/ up.res.done THEN up
    ELSE LET opt == OptFn(up.p.f, up.res.value)
             q == [up.p EXCEPT !.nF = @ + 1]
         IN  IF opt.err # NoErr THEN Outcome(q, Raised(opt.err))
             ELSE IF opt.some THEN Outcome(q, IterResult(FALSE, opt.value))
             ELSE FilterMapNext(q)

\* the shared tail of FilterMapIter.return / throw; dflt is the value of
\* the { done: true, ... } the method builds when f returns None
FilterMapForce(up, dflt) ==
    IF up.res.err # NoErr \/ up.res.done THEN up
    ELSE LET opt == OptFn(up.p.f, up.res.value)
             q == [up.p EXCEPT !.nF = @ + 1]
         IN  IF opt.err # NoErr THEN Outcome(q, Raised(opt.err))
             ELSE IF opt.some THEN Outcome(q, IterResult(FALSE, opt.value))
             ELSE Outcome(q, IterResult(TRUE, dflt))

FilterMapReturn(p, value) == FilterMapForce(UpReturn(p, value), value)
FilterMapThrow(p, e) == FilterMapForce(UpThrow(p, e), Undefined)

\* ZipIter.next with `done = res.done`
RECURSIVE ZipNextFromLastDone(_, _, _, _)
ZipNextFromLastDone(p, i, value, done) ==
    IF i > Len(p.iters) THEN Outcome(p, IterResult(done, Arr(value)))
    ELSE LET m == IterNext(p.iters[i])
             q == [p EXCEPT !.iters[i] = m.p]
         IN  IF m.res.err # NoErr THEN Outcome(q, m.res)
             ELSE ZipNextFromLastDone(q, i + 1, Append(value, m.res.value),
                                      m.res.done)

\* ZipIter.next that stops polling at the first exhausted member
RECURSIVE ZipNextFromShortCircuit(_, _, _, _)
ZipNextFromShortCircuit(p, i, value, done) ==
    IF i > Len(p.iters) \/ done THEN Outcome(p, IterResult(done, Arr(value)))
    ELSE LET m == IterNext(p.iters[i])
             q == [p EXCEPT !.iters[i] = m.p]
         IN  IF m.res.err # NoErr THEN Outcome(q, m.res)
             ELSE ZipNextFromShortCircuit(q, i + 1, Append(value, m.res.value),
                                          m.res.done \/ done)

\* ZipIter.next that walks this.iters from the last member to the first
RECURSIVE ZipNextFromRightToLeft(_, _, _, _)
ZipNextFromRightToLeft(p, i, value, done) ==
    IF i > Len(p.iters) THEN Outcome(p, IterResult(done, Arr(value)))
    ELSE LET j == Len(p.iters) + 1 - i
             m == IterNext(p.iters[j])
             q == [p EXCEPT !.iters[j] = m.p]
         IN  IF m.res.err # NoErr THEN Outcome(q, m.res)
             ELSE ZipNextFromRightToLeft(q, i + 1, Append(value, m.res.value),
                                         m.res.done \/ done)

\* for (const iter of this.iters) { res = iter.next(); done = res.done || done;
\*                                  value.push(res.value) }
ZipNextFrom(p, i, value, done) ==
    IF i > Len(p.iters) THEN Outcome(p, IterResult(done, Arr(value)))
    ELSE LET m == IterNext(p.iters[i])
             q == [p EXCEPT !.iters[i] = m.p]
         IN  IF m.res.err # NoErr THEN Outcome(q, m.res)
             ELSE ZipNextFrom(q, i + 1, Append(value, m.res.value),
                              m.res.done \/ done)

ZipNext(p) == ZipNextFrom(p, 1, <<>>, FALSE)

\* for (const iter of this.iters) iter.return?.(value)
ZipReturnFrom(p, i, value) ==
    IF i > Len(p.iters) THEN Outcome(p, IterResult(TRUE, value))
    ELSE IF ~HasReturn(p.iters[i]) THEN ZipReturnFrom(p, i + 1, value)
    ELSE LET m == IterReturn(p.iters[i], value)
             q == [p EXCEPT !.iters[i] = m.p]
         IN  IF m.res.err # NoErr THEN Outcome(q, m.res)
             ELSE ZipReturnFrom(q, i + 1, value)

ZipReturn(p, value) == ZipReturnFrom(p, 1, value)

\* for (const iter of this.iters) iter.throw?.(e)
ZipThrowFrom(p, i, e) ==
    IF i > Len(p.iters) THEN Outcome(p, IterResult(TRUE, Undefined))
    ELSE IF ~HasThrow(p.iters[i]) THEN ZipThrowFrom(p, i + 1, e)
    ELSE LET m == IterThrow(p.iters[i], e)
             q == [p EXCEPT !.iters[i] = m.p]
         IN  IF m.res.err # NoErr THEN Outcome(q, m.res)
             ELSE ZipThrowFrom(q, i + 1, e)

ZipThrow(p, e) == ZipThrowFrom(p, 1, e)

\* Range.next that tests `this.curr === this.end`
RangeNextUntilEqual(p) ==
    LET c == p.curr + p.step
    IN  Outcome([p EXCEPT !.curr = c], IterResult(c = p.end, Num(c)))

RangeNext(p) ==
    LET c == p.curr + p.step
    IN  Outcome([p EXCEPT !.curr = c],
                IterResult((p.step < 0) = (c < p.end), Num(c)))

OnceNext(p) == Outcome(p, IterResult(p.done, p.value))
OnceStreamReturn(p, value) == Outcome(p, IterResult(TRUE, value))
OnceStreamThrow(p, e) == Outcome(p, IterResult(TRUE, Undefined))

NeverNext(p) == Outcome(p, IterResult(TRUE, Undefined))

IterNext(p) ==
    LET q == [p EXCEPT !.calls.next = @ + 1]
    IN  CASE q.kind = "ArrayIterator" -> ArrayNext(q)
          [] q.kind = "Generator" -> GeneratorNext(q)
          [] q.kind \in {"IterWrapper", "StreamWrapper"} -> WrapperNext(q)
          [] q.kind = "Take" -> TakeNext(q)
          [] q.kind = "Enumerate" -> EnumerateNext(q)
          [] q.kind = "Map" -> MapNext(q)
          [] q.kind = "Filter" -> FilterNext(q)
          [] q.kind = "FilterMap" -> FilterMapNext(q)
          [] q.kind = "Zip" -> ZipNext(q)
          [] q.kind = "Range" -> RangeNext(q)
          [] q.kind \in {"OnceIter", "OnceStream"} -> OnceNext(q)
          [] q.kind = "Never" -> NeverNext(q)

IterReturn(p, value) ==
    LET q == [p EXCEPT !.calls.ret = @ + 1]
    IN  CASE q.kind = "Generator" -> GeneratorReturn(q, value)
          [] q.kind \in {"IterWrapper", "StreamWrapper"} -> WrapperReturn(q, value)
          [] q.kind = "Take" -> TakeReturn(q, value)
          [] q.kind = "Enumerate" -> EnumerateReturn(q, value)
          [] q.kind = "Map" -> MapReturn(q, value)
          [] q.kind = "Filter" -> FilterReturn(q, value)
          [] q.kind = "FilterMap" -> FilterMapReturn(q, value)
          [] q.kind = "Zip" -> ZipReturn(q, value)
          [] q.kind = "OnceStream" -> OnceStreamReturn(q, value)

IterThrow(p, e) ==
    LET q == [p EXCEPT !.calls.thr = @ + 1]
    IN  CASE q.kind = "Generator" -> GeneratorThrow(q, e)
          [] q.kind \in {"IterWrapper", "StreamWrapper"} -> WrapperThrow(q, e)
          [] q.kind = "Take" -> TakeThrow(q, e)
          [] q.kind = "Enumerate" -> EnumerateThrow(q, e)
          [] q.kind = "Map" -> MapThrow(q, e)
          [] q.kind = "Filter" -> FilterThrow(q, e)
          [] q.kind = "FilterMap" -> FilterMapThrow(q, e)
          [] q.kind = "Zip" -> ZipThrow(q, e)
          [] q.kind = "OnceStream" -> OnceStreamThrow(q, e)

(***************************************************************************)
(* Construction of a chain from its description, as a caller writes it:    *)
(* iter(a).map(f).filter(g) is                                             *)
(* [d |-> "filter", f |-> g, up |-> [d |-> "map", f |-> f, up |-> a]].       *)
(***************************************************************************)
Families == {"sync", "async"}

RECURSIVE Build(_, _)
Build(family, d) ==
    LET sync == family = "sync"
    IN  CASE d.d = "array" ->
                IF sync THEN IterWrapper(Array(d.items))
                ELSE StreamWrapper(Array(d.items))
          [] d.d = "gen" ->
                IF sync THEN IterWrapper(Generator(d.items, d.fin))
                ELSE StreamWrapper(Generator(d.items, d.fin))
          [] d.d = "range" ->
                LET r == IF d.incl THEN RangeInclusive(d.begin, d.end, d.step)
                         ELSE Range(d.begin, d.end, d.step)
                IN  IF sync THEN r ELSE StreamWrapper(r)
          [] d.d = "once" ->
                IF sync THEN OnceIter(d.value) ELSE OnceStream(d.value)
          [] d.d = "never" -> Never
          [] d.d = "take" ->
                IF sync THEN TakeIter(Build(family, d.up), d.n)
                ELSE TakeStream(Build(family, d.up), d.n)
          [] d.d = "enumerate" -> EnumerateIter(Build(family, d.up), d.start)
          [] d.d = "map" -> MapIter(Build(family, d.up), d.f)
          [] d.d = "filter" -> FilterIter(Build(family, d.up), d.f)
          [] d.d = "filterMap" -> FilterMapIter(Build(family, d.up), d.f)
          [] d.d = "zip" ->
                ZipIter([i \in DOMAIN d.ups |-> Build(family, d.ups[i])])

\* the collection [base + 1, ..., base + n]
Items(base, n) == [i \in 1..n |-> Num(base + i)]

ArrayD(items) == [d |-> "array", items |-> items]
GenD(items, fin) == [d |-> "gen", items |-> items, fin |-> fin]
RangeD(begin, end, step, incl) ==
    [d |-> "range", begin |-> begin, end |-> end, step |-> step, incl |-> incl]
OnceD(value) == [d |-> "once", value |-> value]
NeverD == [d |-> "never"]
TakeD(up, n) == [d |-> "take", n |-> n, up |-> up]
EnumerateD(up, start) == [d |-> "enumerate", start |-> start, up |-> up]
MapD(up, f) == [d |-> "map", f |-> f, up |-> up]
FilterD(up, f) == [d |-> "filter", f |-> f, up |-> up]
FilterMapD(up, f) == [d |-> "filterMap", f |-> f, up |-> up]
ZipD(ups) == [d |-> "zip", ups |-> ups]

SourceDescs ==
    {ArrayD(Items(0, n)) : n \in 0..MaxLen}
    \cup {GenD(Items(0, MaxLen), fin) : fin \in BOOLEAN}
    \cup {RangeD(2, NoArg, NoArg, FALSE), RangeD(2, Arg(0), NoArg, FALSE)}
    \cup {OnceD(Num(7)), NeverD}
    \cup {ZipD(<<ArrayD(Items(0, 1)), ArrayD(Items(10, 2))>>)}

StagesOver(up) ==
    {TakeD(up, WideOf(n)) : n \in 0..MaxTake}
    \cup {EnumerateD(up, s) : s \in {NoArg, Arg(5)}}
    \cup {MapD(up, f) : f \in MapFns}
    \cup {FilterD(up, "even")}
    \cup {FilterMapD(up, f) : f \in OptFns}

\* a producer that never reports exhaustion (OnceIter.next, iter.ts:400)
RECURSIVE Endless(_)
Endless(d) ==
    CASE d.d = "once" -> TRUE
      [] d.d \in {"enumerate", "map", "filter", "filterMap"} -> Endless(d.up)
      [] d.d = "zip" -> \A i \in DOMAIN d.ups : Endless(d.ups[i])
      [] OTHER -> FALSE

\* the loop of FilterIter.next / FilterMapIter.next over an endless upstream
\* may never return; such a call has no state after it
RECURSIVE Returns(_)
Returns(d) ==
    CASE d.d \in {"filter", "filterMap"} -> ~Endless(d.up) /\ Returns(d.up)
      [] d.d \in {"take", "enumerate", "map"} -> Returns(d.up)
      [] d.d = "zip" -> \A i \in DOMAIN d.ups : Returns(d.ups[i])
      [] OTHER -> TRUE

RECURSIVE ChainDescs(_)
ChainDescs(depth) ==
    IF depth = 0 THEN SourceDescs
    ELSE LET C == ChainDescs(depth - 1)
         IN  C \cup UNION {StagesOver(c) : c \in C}

(***************************************************************************)
(* The consumer.  hist records every protocol call issued on the outermost *)
(* producer and its result; term is the terminal operation in progress.    *)
(***************************************************************************)
ReturnValues == {Num(9)}
ThrowErrors == {"E"}

Idle == [op |-> "none", pc |-> "idle", acc |-> Undefined, result |-> Undefined]

InitChain(descs, calls) ==
    /\ cfg \in [family : Families, desc : {d \in descs : Returns(d)},
                maxCalls : {calls}]
    /\ prod = Build(cfg.family, cfg.desc)
    /\ hist = <<>>
    /\ term = Idle
    /\ tasks = <<>>

Init == InitChain(ChainDescs(MaxDepth), MaxCalls)

Record(op, o) ==
    /\ prod' = o.p
    /\ hist' = Append(hist, [op |-> op, res |-> o.res])
    /\ UNCHANGED <<cfg, term, tasks>>

CallNext ==
    /\ term.pc = "idle"
    /\ Len(hist) < cfg.maxCalls
    /\ Record("next", IterNext(prod))

CallReturn ==
    /\ term.pc = "idle"
    /\ Len(hist) < cfg.maxCalls
    /\ HasReturn(prod)
    /\ \E value \in ReturnValues : Record("return", IterReturn(prod, value))

CallThrow ==
    /\ term.pc = "idle"
    /\ Len(hist) < cfg.maxCalls
    /\ HasThrow(prod)
    /\ \E e \in ThrowErrors : Record("throw", IterThrow(prod, e))

Next == CallNext \/ CallReturn \/ CallThrow

Spec == Init /\ [][Next]_vars

(***************************************************************************)
(* Terminal operations.  `for (const x of this)` pulls from                *)
(* this[Symbol.iterator]() until a pull reports exhaustion; term.acc is    *)
(* the loop's accumulator.                                                 *)
(***************************************************************************)
\* this[Symbol.iterator]().next(): IterWrapper hands out the foreign iterator
ForOfNext(p) ==
    IF p.kind = "IterWrapper" THEN UpNext(p) ELSE IterNext(p)

\* sum += x
SumBody(acc, x) == Num(acc.n + x.n)
\* max = x
MaxBodyKeepsLast(acc, x) == x
\* max = Math.max(x, max)
MaxBody(acc, x) == Num(MathMax(x.n, acc.n))
\* min = Math.min(x, min)
MinBody(acc, x) == Num(MathMin(x.n, acc.n))
\* [...this], and forEach(x => out.push(x))
PushBody(acc, x) == Arr(Append(acc.items, x))

\* the options of option.ts
Some(value) == [some |-> TRUE, value |-> value]
None == [some |-> FALSE, value |-> Undefined]

\* f of reduce: (sum, x) => sum - x
Sub(sum, x) == Num(sum.n - x.n)
\* sum = f(x, sum)
ReduceBodySwapped(acc, x) ==
    [sum |-> Sub(x, acc.sum), fcalls |-> Append(acc.fcalls, <<x, acc.sum>>)]
\* sum = f(sum, x); acc.fcalls lists the argument pairs f was invoked with
ReduceBody(acc, x) ==
    [sum |-> Sub(acc.sum, x), fcalls |-> Append(acc.fcalls, <<acc.sum, x>>)]

\* result &&= b
AllBody(result, b) == Bool(result.b /\ b.b)
\* result ||= b
AnyBody(result, b) == Bool(result.b \/ b.b)

LoopBody(op, acc, x) ==
    CASE op \in {"sum", "fold"} -> SumBody(acc, x)
      [] op = "all" -> AllBody(acc, x)
      [] op = "any" -> AnyBody(acc, x)
      [] op = "min" -> MinBody(acc, x)
      [] op = "max" -> MaxBody(acc, x)
      [] op \in {"collect", "forEach"} -> PushBody(acc, x)
      [] op = "reduce" -> ReduceBody(acc, x)

\* how an iteration of a loop ends: the body completes, leaves the loop, or
\* raises a failure
Normal == "normal"
Break == "break"

\* for (const b of this) { result &&= b; if (!result) break }
AllExitOnFalse(result, b) == IF b.b THEN Normal ELSE Break
\* the body `result &&= b` of all() has no break
AllExit(result, b) == Normal

\* the callbacks handed to forEach / fold / reduce that raise:
\* x => { if (x === 2) throw F; ... }
CallbackExit(f, x) == IF f = "failOn2" /\ x = Refused THEN Failure ELSE Normal

LoopExit(t, x) ==
    IF t.op = "all" THEN AllExit(t.acc, x)
    ELSE IF "f" \in DOMAIN t THEN CallbackExit(t.f, x)
    ELSE Normal

\* a for...of that sends no return() when its body raises
ForOfCloseNever(p) == p
\* leaving `for (const x of this)` before exhaustion: the iterator the loop
\* obtained from this[Symbol.iterator]() gets return() if it has the method
ForOfClose(p) ==
    IF p.kind = "IterWrapper"
    THEN IF HasReturn(p.iter)
         THEN [p EXCEPT !.iter = IterReturn(p.iter, Undefined).p] ELSE p
    ELSE IF HasReturn(p) THEN IterReturn(p, Undefined).p ELSE p

LoopResult(op, acc) ==
    CASE op = "forEach" -> Undefined
      [] op = "reduce" -> Some(acc.sum)
      [] OTHER -> acc

Start(op, seed) ==
    /\ term.pc = "idle"
    /\ hist = <<>>
    /\ term' = [op |-> op, pc |-> "loop", acc |-> seed, result |-> Undefined]
    /\ UNCHANGED <<cfg, prod, hist, tasks>>

StartSum == Start("sum", Num(0))
StartMin == Start("min", Num(0))
StartMax == Start("max", Num(0))
StartCollect == cfg.family = "sync" /\ Start("collect", Arr(<<>>))
StartForEach == Start("forEach", Arr(<<>>))
StartAll == Start("all", Bool(TRUE))
StartAny == Start("any", Bool(FALSE))

\* a terminal operation handed a callback f that may raise
StartWith(op, seed, f) ==
    /\ term.pc = "idle"
    /\ hist = <<>>
    /\ term' = [op |-> op, pc |-> "loop", acc |-> seed, result |-> Undefined,
                f |-> f]
    /\ UNCHANGED <<cfg, prod, hist, tasks>>

\* forEach(x => { if (x === 2) throw F; out.push(x) })
StartForEachFailing == StartWith("forEach", Arr(<<>>), "failOn2")
\* fold(0, (sum, x) => { if (x === 2) throw F; return sum + x })
StartFoldFailing == StartWith("fold", Num(0), "failOn2")

\* reduce: const res = this.next(); if (res.done) return None; let sum = res.value
\* t is the operation as it starts
StartReduceOf(t) ==
    /\ term.pc = "idle"
    /\ hist = <<>>
    /\ LET o == IterNext(prod)
       IN  /\ prod' = o.p
           /\ term' =
                IF o.res.err # NoErr
                THEN [t EXCEPT !.pc = "raised",
                               !.result = [ty |-> "error", e |-> o.res.err]]
                ELSE IF o.res.done
                THEN [t EXCEPT !.pc = "done", !.result = None]
                ELSE [t EXCEPT !.pc = "loop",
                               !.acc = [sum |-> o.res.value, fcalls |-> <<>>]]
    /\ UNCHANGED <<cfg, hist, tasks>>

StartReduce == StartReduceOf([Idle EXCEPT !.op = "reduce"])
\* reduce((sum, x) => { if (x === 2) throw F; return sum - x })
StartReduceFailing ==
    StartReduceOf([op |-> "reduce", pc |-> "idle", acc |-> Undefined,
                   result |-> Undefined, f |-> "failOn2"])

ForOfStep ==
    /\ term.pc = "loop"
    /\ LET o == ForOfNext(prod)
           exit == LoopExit(term, o.res.value)
           acc == LoopBody(term.op, term.acc, o.res.value)
       IN  IF o.res.err # NoErr
           THEN /\ prod' = o.p
                /\ term' = [term EXCEPT !.pc = "raised",
                                        !.result = [ty |-> "error", e |-> o.res.err]]
           ELSE IF o.res.done
           THEN /\ prod' = o.p
                /\ term' = [term EXCEPT !.pc = "done",
                                        !.result = LoopResult(term.op, term.acc)]
           ELSE IF exit = Normal
           THEN /\ prod' = o.p
                /\ term' = [term EXCEPT !.acc = acc]
           ELSE IF exit = Break
           THEN /\ prod' = ForOfClose(o.p)
                /\ term' = [term EXCEPT !.pc = "done", !.acc = acc,
                                        !.result = LoopResult(term.op, acc)]
           ELSE /\ prod' = ForOfClose(o.p)
                /\ term' = [term EXCEPT !.pc = "raised",
                                        !.result = [ty |-> "error", e |-> exit]]
    /\ UNCHANGED <<cfg, hist, tasks>>

(***************************************************************************)
(* optNext and nth.                                                        *)
(***************************************************************************)
\* const res = this.next(); return res.done ? None : Some(res.value)
OptNext(p) ==
    LET o == IterNext(p)
    IN  [p |-> o.p,
         res |-> IF o.res.err # NoErr THEN [ty |-> "error", e |-> o.res.err]
                 ELSE IF o.res.done THEN None ELSE Some(o.res.value)]

\* for (let i = 1; i < n; i++) { if (this.next().done) return None }
\* return this.optNext()
RECURSIVE NthFrom(_, _, _)
NthFrom(p, i, n) ==
    IF i < n
    THEN LET o == IterNext(p)
         IN  IF o.res.err # NoErr
             THEN [p |-> o.p, res |-> [ty |-> "error", e |-> o.res.err]]
             ELSE IF o.res.done THEN [p |-> o.p, res |-> None]
             ELSE NthFrom(o.p, i + 1, n)
    ELSE OptNext(p)

\* for (let i = 0; ...
NthZeroBased(p, n) == NthFrom(p, 0, n)
Nth(p, n) == NthFrom(p, 1, n)

CallNth ==
    /\ term.pc = "idle"
    /\ hist = <<>>
    /\ \E n \in 0..MaxNth :
          LET o == Nth(prod, n)
          IN  /\ prod' = o.p
              /\ term' = [op |-> "nth", pc |-> "done", acc |-> Num(n),
                          result |-> o.res]
    /\ UNCHANGED <<cfg, hist, tasks>>

(***************************************************************************)
(* find and findMap.  fcalls lists the argument pairs f was invoked with.  *)
(***************************************************************************)
FindPreds == {"even", "second"}
FindOpts == {"halfEven", "indexOfThree"}

\* f of find: (x, i) => x % 2 === 0, (x, i) => i === 1
FindPred(f, x, i) == IF f = "even" THEN x.n % 2 = 0 ELSE i = 1

\* f of findMap: (x, i) => x % 2 === 0 ? Some(x / 2) : None,
\*               (x, i) => x === 3 ? Some(i) : None
FindOpt(f, x, i) ==
    IF f = "halfEven" THEN IF x.n % 2 = 0 THEN Some(Num(x.n \div 2)) ELSE None
    ELSE IF x.n = 3 THEN Some(Num(i)) ELSE None

\* for (let i = ...; ; i++) { const res = this.next();
\*     if (res.done) return None; else if (f(res.value, i)) return Some(res.value) }
RECURSIVE FindFrom(_, _, _, _)
FindFrom(p, i, f, fcalls) ==
    LET o == IterNext(p)
        fc == Append(fcalls, <<o.res.value, i>>)
    IN  IF o.res.err # NoErr
        THEN [p |-> o.p, res |-> [ty |-> "error", e |-> o.res.err], fcalls |-> fcalls]
        ELSE IF o.res.done THEN [p |-> o.p, res |-> None, fcalls |-> fcalls]
        ELSE IF FindPred(f, o.res.value, i)
        THEN [p |-> o.p, res |-> Some(o.res.value), fcalls |-> fc]
        ELSE FindFrom(o.p, i + 1, f, fc)

\* for (let i = 1; ...
FindOneBased(p, f) == FindFrom(p, 1, f, <<>>)
Find(p, f) == FindFrom(p, 0, f, <<>>)

\* ... else { const o = f(res.value, i); if (o.some) return o }
RECURSIVE FindMapFrom(_, _, _, _)
FindMapFrom(p, i, f, fcalls) ==
    LET o == IterNext(p)
        fc == Append(fcalls, <<o.res.value, i>>)
        opt == FindOpt(f, o.res.value, i)
    IN  IF o.res.err # NoErr
        THEN [p |-> o.p, res |-> [ty |-> "error", e |-> o.res.err], fcalls |-> fcalls]
        ELSE IF o.res.done THEN [p |-> o.p, res |-> None, fcalls |-> fcalls]
        ELSE IF opt.some THEN [p |-> o.p, res |-> opt, fcalls |-> fc]
        ELSE FindMapFrom(o.p, i + 1, f, fc)

FindMap(p, f) == FindMapFrom(p, 0, f, <<>>)

Found(op, f, o) ==
    /\ term.pc = "idle"
    /\ hist = <<>>
    /\ prod' = o.p
    /\ term' = [op |-> op, pc |-> "done", acc |-> Undefined, result |-> o.res,
                f |-> f, fcalls |-> o.fcalls]
    /\ UNCHANGED <<cfg, hist, tasks>>

CallFind == \E f \in FindPreds : Found("find", f, Find(prod, f))
CallFindMap == \E f \in FindOpts : Found("findMap", f, FindMap(prod, f))

(***************************************************************************)
(* The async methods of stream.ts, step by step.  A frame of tasks is one  *)
(* call of an async method: node is the path of its object in prod,        *)
(* parent the frame that awaits it (0: the consumer), res / i / value /    *)
(* done its local variables.  pc is "up" while the frame awaits the call   *)
(* it made on its upstream, "val" while it awaits a value that is not a    *)
(* promise, "settled" once the method has returned or raised (val is the   *)
(* outcome) and "done" once the awaiting frame has been resumed with it.   *)
(* A call runs synchronously up to its first await.  The order in which    *)
(* queued continuations run is left open.                                  *)
(***************************************************************************)
Mach(p, t) == [prod |-> p, tasks |-> t]

Frame(node, op, arg, parent) ==
    [node |-> node, op |-> op, arg |-> arg, parent |-> parent, pc |-> "run",
     at |-> "", val |-> Undefined, res |-> Undefined, i |-> 0,
     value |-> <<>>, done |-> FALSE]

\* this.iter of a stage, this.iters[i] of a zip stage
Child(p, i) == IF p.kind = "Zip" THEN p.iters[i] ELSE p.iter

RECURSIVE Node(_, _)
Node(p, path) ==
    IF path = <<>> THEN p ELSE Node(Child(p, Head(path)), Tail(path))

RECURSIVE SetNode(_, _, _)
SetNode(p, path, q) ==
    IF path = <<>> THEN q
    ELSE IF p.kind = "Zip"
    THEN [p EXCEPT !.iters[Head(path)] = SetNode(@, Tail(path), q)]
    ELSE [p EXCEPT !.iter = SetNode(@, Tail(path), q)]

\* `this` of frame id
This(M, id) == Node(M.prod, M.tasks[id].node)
SetThis(M, id, q) == [M EXCEPT !.prod = SetNode(@, M.tasks[id].node, q)]

HasOp(p, op) ==
    CASE op = "next" -> TRUE
      [] op = "return" -> HasReturn(p)
      [] op = "throw" -> HasThrow(p)

\* a call on a synchronous iterator
IterCall(p, op, arg) ==
    CASE op = "next" -> IterNext(p)
      [] op = "return" -> IterReturn(p, arg)
      [] op = "throw" -> IterThrow(p, arg)

Received(p, op) ==
    CASE op = "next" -> [p EXCEPT !.calls.next = @ + 1]
      [] op = "return" -> [p EXCEPT !.calls.ret = @ + 1]
      [] op = "throw" -> [p EXCEPT !.calls.thr = @ + 1]

\* ?? { done: true, value } of return, ?? { done: true, value: undefined }
\* of throw
Default(f) == IterResult(TRUE, IF f.op = "return" THEN f.arg ELSE Undefined)
OrDefault(f, v) == IF v = Undefined THEN Default(f) ELSE v

\* the async method returns res, or raises when res.err # NoErr
Settle(M, id, res) ==
    [M EXCEPT !.tasks[id].pc = "settled", !.tasks[id].val = res]

\* await v, v not a promise
AwaitValue(M, id, at, v) ==
    [M EXCEPT !.tasks[id].pc = "val", !.tasks[id].at = at, !.tasks[id].val = v]

RECURSIVE Invoke(_, _, _, _, _), Resume(_, _, _)

\* await this.iter.next() and the like: the call is made, runs up to its
\* first await, and frame id waits for it; at = "forward" is
\* `return this.iter.next()`, which settles frame id with the call's outcome
AwaitCall(M, id, at, i, op, arg) ==
    Invoke([M EXCEPT !.tasks[id].pc = "up", !.tasks[id].at = at],
           Append(M.tasks[id].node, i), op, arg, id)

\* await this.iter.return?.(value), await this.iter.throw?.(e)
AwaitForced(M, id, at, i) ==
    LET f == M.tasks[id]
    IN  IF HasOp(Child(This(M, id), i), f.op)
        THEN AwaitCall(M, id, at, i, f.op, f.arg)
        ELSE AwaitValue(M, id, at, Undefined)

\* const res = await this.iter.next(), or
\* const res = (await this.iter.return?.(value)) ?? { done: true, value }
AwaitUpstream(M, id) ==
    IF M.tasks[id].op = "next" THEN AwaitCall(M, id, "res", 1, "next", Undefined)
    ELSE AwaitForced(M, id, "res", 1)

\* StreamWrapper over a synchronous iterator
StreamWrapperStart(M, id) ==
    LET f == M.tasks[id]
        p == This(M, id)
    IN  IF ~HasOp(p.iter, f.op) THEN AwaitValue(M, id, "res", Undefined)
        ELSE LET o == IterCall(p.iter, f.op, f.arg)
                 M1 == SetThis(M, id, [p EXCEPT !.iter = o.p])
             IN  IF o.res.err # NoErr THEN Settle(M1, id, o.res)
                 ELSE AwaitValue(M1, id, "res", o.res)

StreamWrapperResume(M, id, v) == Settle(M, id, OrDefault(M.tasks[id], v))

\* TakeStream.next that stops only at `this.cnt === 0`
TakeStreamNextOnlyZero(M, id) ==
    LET p == This(M, id)
    IN  IF p.cnt = 0 THEN Settle(M, id, IterResult(TRUE, Undefined))
        ELSE AwaitCall(SetThis(M, id, [p EXCEPT !.cnt = @ - 1]), id,
                       "forward", 1, "next", Undefined)

\* TakeStream.next without `this.cnt--`
TakeStreamNextNoDecrement(M, id) ==
    LET p == This(M, id)
    IN  IF p.cnt <= 0 THEN Settle(M, id, IterResult(TRUE, Undefined))
        ELSE AwaitCall(M, id, "forward", 1, "next", Undefined)

\* if (this.cnt <= 0) return { done: true }; this.cnt--; return this.iter.next()
TakeStreamNext(M, id) ==
    LET p == This(M, id)
    IN  IF p.cnt <= 0 THEN Settle(M, id, IterResult(TRUE, Undefined))
        ELSE AwaitCall(SetThis(M, id, [p EXCEPT !.cnt = @ - 1]), id,
                       "forward", 1, "next", Undefined)

TakeStreamStart(M, id) ==
    IF M.tasks[id].op = "next" THEN TakeStreamNext(M, id)
    ELSE AwaitForced(M, id, "res", 1)

TakeStreamResume(M, id, v) ==
    IF M.tasks[id].at = "forward" THEN Settle(M, id, v)
    ELSE LET r == OrDefault(M.tasks[id], v)
         IN  Settle(M, id, [r EXCEPT !.done = @ \/ This(M, id).cnt <= 0])

EnumerateStreamResume(M, id, v) ==
    LET r == OrDefault(M.tasks[id], v)
        p == This(M, id)
    IN  IF r.done THEN Settle(M, id, r)
        ELSE Settle(SetThis(M, id, [p EXCEPT !.ctr = @ + 1]), id,
                    IterResult(FALSE, Arr(<<Num(p.ctr), r.value>>)))

\* res.done ? res : { value: await this.f(res.value) }
MapStreamResume(M, id, v) ==
    IF M.tasks[id].at = "f" THEN Settle(M, id, IterResult(FALSE, v))
    ELSE LET r == OrDefault(M.tasks[id], v)
             p == This(M, id)
         IN  IF r.done THEN Settle(M, id, r)
             ELSE LET y == MapFn(p.f, r.value)
                      M1 == SetThis(M, id, [p EXCEPT !.nF = @ + 1])
                  IN  IF y.err # NoErr THEN Settle(M1, id, Raised(y.err))
                      ELSE AwaitValue(M1, id, "f", y.value)

\* next awaits; return / throw are `return this.iter.return?.(value) ?? ...`
FilterStreamStart(M, id) ==
    LET f == M.tasks[id]
    IN  IF f.op = "next" THEN AwaitCall(M, id, "res", 1, "next", Undefined)
        ELSE IF HasOp(This(M, id).iter, f.op)
        THEN AwaitCall(M, id, "forward", 1, f.op, f.arg)
        ELSE Settle(M, id, Default(f))

\* do { res = await this.iter.next() }
\* while (!res.done && (await this.f(res.value)))
FilterStreamResume(M, id, v) ==
    LET f == M.tasks[id]
        p == This(M, id)
    IN  CASE f.at = "forward" -> Settle(M, id, v)
          [] f.at = "res" ->
                IF v.done THEN Settle(M, id, v)
                ELSE LET t == Pred(p.f, v.value)
                         M1 == SetThis([M EXCEPT !.tasks[id].res = v], id,
                                       [p EXCEPT !.nF = @ + 1])
                     IN  IF t.err # NoErr THEN Settle(M1, id, Raised(t.err))
                         ELSE AwaitValue(M1, id, "f", Bool(t.value))
          [] f.at = "f" ->
                IF v.b THEN AwaitCall(M, id, "res", 1, "next", Undefined)
                ELSE Settle(M, id, f.res)

FilterMapStreamResume(M, id, v) ==
    LET f == M.tasks[id]
        p == This(M, id)
    IN  IF f.at = "res"
        THEN LET r == OrDefault(f, v)
             IN  IF r.done THEN Settle(M, id, r)
                 ELSE LET opt == OptFn(p.f, r.value)
                          M1 == SetThis(M, id, [p EXCEPT !.nF = @ + 1])
                      IN  IF opt.err # NoErr THEN Settle(M1, id, Raised(opt.err))
                          ELSE AwaitValue(M1, id, "f", opt)
        ELSE IF v.some THEN Settle(M, id, IterResult(FALSE, v.value))
        ELSE IF f.op = "next" THEN AwaitCall(M, id, "res", 1, "next", Undefined)
        ELSE Settle(M, id, Default(f))

\* ZipStream.next that calls next on member i + 1 before member i answered
ZipStreamStepNoAwait(M, id, i) ==
    LET f == M.tasks[id]
        n == Len(This(M, id).iters)
        M1 == [M EXCEPT !.tasks[id].i = i]
    IN  IF i > n
        THEN Settle(M, id, IF f.op = "next" THEN IterResult(f.done, Arr(f.value))
                           ELSE Default(f))
        ELSE IF f.op = "next" /\ i < n
        THEN AwaitCall(AwaitCall(M1, id, "res", i, "next", Undefined), id,
                       "res", i + 1, "next", Undefined)
        ELSE IF f.op = "next" THEN AwaitCall(M1, id, "res", i, "next", Undefined)
        ELSE AwaitForced(M1, id, "res", i)

\* for (const iter of this.iters) { const res = await iter.next(); ... } and
\* for (const iter of this.iters) await iter.return?.(value), at member i
ZipStreamStep(M, id, i) ==
    LET f == M.tasks[id]
        M1 == [M EXCEPT !.tasks[id].i = i]
    IN  IF i > Len(This(M, id).iters)
        THEN Settle(M, id, IF f.op = "next" THEN IterResult(f.done, Arr(f.value))
                           ELSE Default(f))
        ELSE IF f.op = "next" THEN AwaitCall(M1, id, "res", i, "next", Undefined)
        ELSE AwaitForced(M1, id, "res", i)

\* done = res.done || done; value.push(res.value)
ZipStreamResume(M, id, v) ==
    LET f == M.tasks[id]
    IN  IF f.op = "next"
        THEN ZipStreamStep([M EXCEPT !.tasks[id].done = v.done \/ @,
                                     !.tasks[id].value = Append(@, v.value)],
                           id, f.i + 1)
        ELSE ZipStreamStep(M, id, f.i + 1)

OnceStreamStart(M, id) ==
    LET f == M.tasks[id]
        p == This(M, id)
    IN  IF f.op = "next" THEN Settle(M, id, IterResult(p.done, p.value))
        ELSE Settle(M, id, Default(f))

\* the call of method op on the object at path, up to its first await
Invoke(M, path, op, arg, parent) ==
    LET id == Len(M.tasks) + 1
        q == Received(Node(M.prod, path), op)
        M1 == Mach(SetNode(M.prod, path, q),
                   Append(M.tasks, Frame(path, op, arg, parent)))
    IN  CASE q.kind = "StreamWrapper" -> StreamWrapperStart(M1, id)
          [] q.kind = "Take" -> TakeStreamStart(M1, id)
          [] q.kind \in {"Enumerate", "Map", "FilterMap"} -> AwaitUpstream(M1, id)
          [] q.kind = "Filter" -> FilterStreamStart(M1, id)
          [] q.kind = "Zip" -> ZipStreamStep(M1, id, 1)
          [] q.kind = "OnceStream" -> OnceStreamStart(M1, id)
          [] q.kind = "Never" -> Settle(M1, id, IterResult(TRUE, Undefined))

\* frame id continues with the awaited value v, up to its next await; an
\* awaited call that raised makes the method raise
Resume(M, id, v) ==
    LET kind == This(M, id).kind
    IN  IF "err" \in DOMAIN v /\ v.err # NoErr THEN Settle(M, id, v)
        ELSE CASE kind = "StreamWrapper" -> StreamWrapperResume(M, id, v)
               [] kind = "Take" -> TakeStreamResume(M, id, v)
               [] kind = "Enumerate" -> EnumerateStreamResume(M, id, v)
               [] kind = "Map" -> MapStreamResume(M, id, v)
               [] kind = "Filter" -> FilterStreamResume(M, id, v)
               [] kind = "FilterMap" -> FilterMapStreamResume(M, id, v)
               [] kind = "Zip" -> ZipStreamResume(M, id, v)

FromConsumer(f) == f.parent = 0
Unfinished(f) == f.pc # "done"
PendingFromConsumer(f) == FromConsumer(f) /\ Unfinished(f)

\* the consumer calls a method of the outermost stage
AsyncCall(op, arg) ==
    /\ cfg.family = "async"
    /\ "overlap" \in DOMAIN cfg
    /\ Len(SelectSeq(tasks, FromConsumer)) < cfg.maxCalls
    /\ cfg.overlap \/ SelectSeq(tasks, PendingFromConsumer) = <<>>
    /\ HasOp(prod, op)
    /\ LET M == Invoke(Mach(prod, tasks), <<>>, op, arg, 0)
       IN  prod' = M.prod /\ tasks' = M.tasks
    /\ UNCHANGED <<cfg, hist, term>>

AsyncCallNext == AsyncCall("next", Undefined)
AsyncCallReturn == \E value \in ReturnValues : AsyncCall("return", value)
AsyncCallThrow == \E e \in ThrowErrors : AsyncCall("throw", e)

\* the continuation of `await v`, v not a promise
ResumeValue ==
    \E id \in DOMAIN tasks :
        /\ tasks[id].pc = "val"
        /\ LET M == Resume([Mach(prod, tasks) EXCEPT !.tasks[id].pc = "run"],
                           id, tasks[id].val)
           IN  prod' = M.prod /\ tasks' = M.tasks
        /\ UNCHANGED <<cfg, hist, term>>

\* the continuation of a stage's `await this.iter.next()` and the like
ResumeCaller ==
    \E id \in DOMAIN tasks :
        /\ tasks[id].pc = "settled"
        /\ tasks[id].parent # 0
        /\ LET M == Resume([Mach(prod, tasks) EXCEPT
                                !.tasks[id].pc = "done",
                                !.tasks[tasks[id].parent].pc = "run"],
                           tasks[id].parent, tasks[id].val)
           IN  prod' = M.prod /\ tasks' = M.tasks
        /\ UNCHANGED <<cfg, hist, term>>

\* the consumer receives the outcome of a call it made
ResumeConsumer ==
    \E id \in DOMAIN tasks :
        /\ tasks[id].pc = "settled"
        /\ tasks[id].parent = 0
        /\ tasks' = [tasks EXCEPT ![id].pc = "done"]
        /\ hist' = Append(hist, [op |-> tasks[id].op, res |-> tasks[id].val])
        /\ UNCHANGED <<cfg, prod, term>>

NextAsync ==
    \/ AsyncCallNext
    \/ AsyncCallReturn
    \/ AsyncCallThrow
    \/ ResumeValue
    \/ ResumeCaller
    \/ ResumeConsumer

\* a stage over a collection or a generator, a stage over a stage, zip
AsyncSources ==
    {ArrayD(Items(0, n)) : n \in 0..MaxAsyncLen}
    \cup {GenD(Items(0, MaxAsyncLen), fin) : fin \in BOOLEAN}
    \cup {OnceD(Num(7)), NeverD}

AsyncStagesOver(up) ==
    {TakeD(up, n) : n \in {WideOf(0), WideOf(1), Wide(-1, 65535)}}
    \cup {EnumerateD(up, NoArg), MapD(up, "inc"), FilterD(up, "even"),
          FilterMapD(up, "halfEven")}

AsyncDescs ==
    LET one == UNION {AsyncStagesOver(s) : s \in AsyncSources}
    IN  one
        \cup UNION {AsyncStagesOver(d) : d \in {FilterD(ArrayD(Items(0, MaxAsyncLen)), "even"),
                                                TakeD(GenD(Items(0, MaxAsyncLen), TRUE), WideOf(1))}}
        \cup {ZipD(<<ArrayD(Items(0, la)), GenD(Items(10, lb), FALSE)>>) :
                la \in 0..MaxAsyncLen, lb \in 0..MaxAsyncLen}

\* the chains on which the consumer also makes calls without awaiting
OverlapDescs ==
    {TakeD(ArrayD(Items(0, MaxAsyncLen)), WideOf(1)),
     FilterD(ArrayD(Items(0, MaxAsyncLen)), "even"),
     ZipD(<<ArrayD(Items(0, 1)), GenD(Items(10, 1), FALSE)>>)}

InitAsync ==
    /\ cfg \in [family : {"async"}, desc : {d \in AsyncDescs : Returns(d)},
                maxCalls : {MaxAsyncCalls}, overlap : BOOLEAN]
    /\ cfg.overlap => cfg.desc \in OverlapDescs
    /\ prod = Build(cfg.family, cfg.desc)
    /\ hist = <<>>
    /\ term = Idle
    /\ tasks = <<>>

SpecAsync == InitAsync /\ [][NextAsync]_vars

(***************************************************************************)
(* An async take whose consumer makes calls without awaiting the earlier   *)
(* ones.                                                                   *)
(***************************************************************************)
OverlapTakeDescs ==
    {TakeD(up, WideOf(n)) :
        up \in {ArrayD(Items(0, MaxOverlapTake + 1)),
                GenD(Items(0, MaxOverlapTake + 1), FALSE)},
        n \in 0..MaxOverlapTake}

InitOverlap ==
    /\ cfg \in [family : {"async"}, desc : OverlapTakeDescs,
                maxCalls : {MaxOverlapCalls}, overlap : {TRUE}]
    /\ prod = Build(cfg.family, cfg.desc)
    /\ hist = <<>>
    /\ term = Idle
    /\ tasks = <<>>

SpecOverlap == InitOverlap /\ [][NextAsync]_vars

(***************************************************************************)
(* zip over collections, consumed by next calls.                           *)
(***************************************************************************)
ZipDescs ==
    {ZipD(<<ArrayD(Items(0, la)), ArrayD(Items(10, lb))>>) :
        la \in 0..MaxZipLen, lb \in 0..MaxZipLen}
    \cup {ZipD(<<ArrayD(Items(0, la)), ArrayD(Items(10, lb)), ArrayD(Items(20, lc))>>) :
        la \in 0..MaxLen, lb \in 0..MaxLen, lc \in 0..MaxLen}

InitZip == InitChain(ZipDescs, MaxZipLen + 2)

SpecZip == InitZip /\ [][CallNext]_vars

(***************************************************************************)
(* filter over collections, consumed to exhaustion.                        *)
(***************************************************************************)
\* the collections of at most n elements drawn from vals
SeqsOver(vals, n) ==
    UNION {{[i \in 1..k |-> Num(s[i])] : s \in [1..k -> vals]} : k \in 0..n}

FilterDescs ==
    {FilterD(ArrayD(items), f) :
        items \in SeqsOver(1..MaxVal, MaxFilterLen), f \in Preds}

InitFilter == InitChain(FilterDescs, 0)

NextFilter == StartCollect \/ StartForEach \/ ForOfStep

SpecFilter == InitFilter /\ [][NextFilter]_vars

(***************************************************************************)
(* sum / min / max over collections of integers.                           *)
(***************************************************************************)
AggVals == {-4, 5, 7, 9}

AggDescs == {ArrayD(items) : items \in SeqsOver(AggVals, MaxAggLen)}

InitAgg == InitChain(AggDescs, 0)

NextAgg == StartSum \/ StartMin \/ StartMax \/ ForOfStep

SpecAgg == InitAgg /\ [][NextAgg]_vars

(***************************************************************************)
(* reduce over collections of integers.                                    *)
(***************************************************************************)
NextReduce == StartReduce \/ ForOfStep

SpecReduce == InitAgg /\ [][NextReduce]_vars

(***************************************************************************)
(* nth over collections of integers.                                       *)
(***************************************************************************)
SpecNth == InitAgg /\ [][CallNth]_vars

(***************************************************************************)
(* range(end), range(begin, end), irange(end) and irange(begin, end),      *)
(* consumed to exhaustion.                                                 *)
(***************************************************************************)
RangeDescs ==
    {RangeD(n, NoArg, NoArg, incl) : n \in 0..MaxRange, incl \in BOOLEAN}
    \cup {RangeD(b, Arg(e), NoArg, incl) :
            b \in 0..MaxRange, e \in 0..MaxRange, incl \in BOOLEAN}

InitRange == InitChain(RangeDescs, 0)

NextRange == StartCollect \/ StartForEach \/ ForOfStep

SpecRange == InitRange /\ [][NextRange]_vars

(***************************************************************************)
(* take over a generator, consumed to exhaustion by for...of.              *)
(***************************************************************************)
DrainDescs ==
    {TakeD(GenD(Items(0, len), fin), WideOf(n)) :
        len \in 0..MaxDrainLen, fin \in BOOLEAN, n \in 0..MaxDrainLen}

InitDrain == InitChain(DrainDescs, 0)

NextDrain == StartCollect \/ StartForEach \/ ForOfStep

SpecDrain == InitDrain /\ [][NextDrain]_vars

(***************************************************************************)
(* take over every source and every one-stage chain, driven by next,       *)
(* return and throw.                                                       *)
(***************************************************************************)
TakeDescs == {TakeD(up, WideOf(n)) : up \in ChainDescs(1), n \in 0..MaxTake}

InitTake == InitChain(TakeDescs, MaxCalls)

SpecTake == InitTake /\ [][Next]_vars

(***************************************************************************)
(* zip over generators and collections, driven by next, return and throw.  *)
(***************************************************************************)
ZipForceMembers ==
    {ArrayD(Items(0, 1))} \cup {GenD(Items(0, 1), fin) : fin \in BOOLEAN}

ZipForceDescs == {ZipD(<<a, b>>) : a \in ZipForceMembers, b \in ZipForceMembers}

InitZipForce == InitChain(ZipForceDescs, MaxCalls)

SpecZipForce == InitZipForce /\ [][Next]_vars

(***************************************************************************)
(* Every stage, with callbacks that return and callbacks that raise, over  *)
(* every source and every one-stage chain, driven by next, return and      *)
(* throw.                                                                  *)
(***************************************************************************)
StageDescs ==
    UNION {StagesOver(up)
             \cup {MapD(up, "failOn2"), FilterD(up, "failOn2"),
                   FilterMapD(up, "failOn2")} : up \in ChainDescs(1)}

InitStage == InitChain(StageDescs, MaxCalls)

SpecStage == InitStage /\ [][Next]_vars

(***************************************************************************)
(* Every source on its own, driven by next, return and throw.              *)
(***************************************************************************)
InitSource == InitChain(SourceDescs, MaxCalls)

SpecSource == InitSource /\ [][Next]_vars

(***************************************************************************)
(* all and any over collections and generators of booleans.                *)
(***************************************************************************)
BoolSeqs(n) == UNION {[1..k -> {Bool(TRUE), Bool(FALSE)}] : k \in 0..n}

BoolDescs ==
    {ArrayD(items) : items \in BoolSeqs(MaxBoolLen)}
    \cup {GenD(items, FALSE) : items \in BoolSeqs(MaxBoolLen)}

InitBool == InitChain(BoolDescs, 0)

NextBool == StartAll \/ StartAny \/ ForOfStep

SpecBool == InitBool /\ [][NextBool]_vars

(***************************************************************************)
(* find and findMap over collections and generators of numbers.            *)
(***************************************************************************)
FindDescs ==
    {ArrayD(items) : items \in SeqsOver(1..MaxVal, MaxFindLen)}
    \cup {GenD(items, FALSE) : items \in SeqsOver(1..MaxVal, MaxFindLen)}

InitFind == InitChain(FindDescs, 0)

NextFind == CallFind \/ CallFindMap

SpecFind == InitFind /\ [][NextFind]_vars

(***************************************************************************)
(* filterMap over collections and generators, driven by next, return and   *)
(* throw.                                                                  *)
(***************************************************************************)
FilterMapDescs ==
    {FilterMapD(up, f) :
        up \in {ArrayD(items) : items \in SeqsOver(0..MaxVal, MaxFilterMapLen)}
             \cup {GenD(items, fin) :
                     items \in SeqsOver(0..MaxVal, MaxFilterMapLen), fin \in BOOLEAN},
        f \in {"halfEven", "positive"}}

InitFilterMap == InitChain(FilterMapDescs, MaxFilterMapLen + 2)

SpecFilterMap == InitFilterMap /\ [][Next]_vars

(***************************************************************************)
(* forEach, fold and reduce with a callback that raises on the element 2,  *)
(* over the sources and one-stage chains that yield numbers and end.       *)
(***************************************************************************)
YieldsNumbers(d) ==
    /\ d.d \notin {"enumerate", "zip"}
    /\ "up" \in DOMAIN d => d.up.d # "zip"

FailingDescs ==
    {d \in ChainDescs(1) : YieldsNumbers(d) /\ ~Endless(d)}
    \cup {RangeD(3, NoArg, NoArg, FALSE), OnceD(Refused)}

InitFailing == InitChain(FailingDescs, 0)

NextFailing ==
    StartForEachFailing \/ StartFoldFailing \/ StartReduceFailing \/ ForOfStep

SpecFailing == InitFailing /\ [][NextFailing]_vars

(***************************************************************************)
(* take(n) over a producer that never ends, for small n and for n around   *)
(* 2^31 and 2^32.                                                          *)
(***************************************************************************)
WideCounts ==
    {WideOf(n) : n \in 0..MaxTake + 1}
    \cup {Wide(32767, 65535), Wide(32768, 0), Wide(32768, 1), Wide(65536, 1)}

WideTakeDescs == {TakeD(OnceD(Num(7)), n) : n \in WideCounts}

InitWideTake == InitChain(WideTakeDescs, MaxCalls)

SpecWideTake == InitWideTake /\ [][Next]_vars

(***************************************************************************)
(* Vocabulary of the properties.                                           *)
(***************************************************************************)
IsNextCall(c) == c.op = "next"
IsReturnCall(c) == c.op = "return"
\* the call produced an element
Yielded(c) == c.res.err = NoErr /\ ~c.res.done
\* the call reported exhaustion
Exhausted(c) == c.res.err = NoErr /\ c.res.done

NextCalls(h) == SelectSeq(h, IsNextCall)
ReturnCalls(h) == SelectSeq(h, IsReturnCall)
YieldedCalls(h) == SelectSeq(h, Yielded)

\* the producers of a chain of single-upstream stages, outermost first
RECURSIVE NodesOf(_)
NodesOf(p) ==
    IF "iter" \in DOMAIN p THEN <<p>> \o NodesOf(p.iter) ELSE <<p>>

SourceOf(p) == LET ns == NodesOf(p) IN ns[Len(ns)]

RECURSIVE Linear(_)
Linear(d) ==
    /\ d.d # "zip"
    /\ "up" \in DOMAIN d => Linear(d.up)

LastCall == hist[Len(hist)]

(***************************************************************************)
(* C1: a take(n) stage, n >= 0, has emitted at most n elements through     *)
(* next and has called its upstream's next at most n times, whatever calls *)
(* the consumer has made; take(0) reports exhaustion on every next call    *)
(* and never calls the upstream's next.                                    *)
(***************************************************************************)
C1_TakeBound ==
    (cfg.desc.d = "take" /\ cfg.desc.n.hi = 0) =>
        LET n == cfg.desc.n.lo
            nx == NextCalls(hist)
        IN  /\ Len(YieldedCalls(nx)) <= n
            /\ prod.iter.calls.next <= n
            /\ n = 0 => /\ \A k \in DOMAIN nx : Exhausted(nx[k])
                        /\ prod.iter.calls.next = 0

\* take(1) over [1, 2] has emitted one element and then reported
\* exhaustion although the upstream has an element left
C1_Witness ==
    /\ cfg.desc = TakeD(ArrayD(Items(0, 2)), WideOf(1))
    /\ Len(YieldedCalls(NextCalls(hist))) = 1
    /\ Len(hist) = 2
    /\ IsNextCall(LastCall) /\ Exhausted(LastCall)
    /\ prod.iter.calls.next = 1

(***************************************************************************)
(* C2 as claimed: every forced-return call on the outermost stage of a     *)
(* chain of single-upstream stages reaches the innermost source as exactly *)
(* one forced-return call.                                                 *)
(***************************************************************************)
C2_SourceReturnedOncePerCall ==
    Linear(cfg.desc) =>
        SourceOf(prod).calls.ret = Len(ReturnCalls(hist))

(***************************************************************************)
(* C2 as amended: a forced-return call on the outermost stage of a chain   *)
(* of single-upstream stages is forwarded exactly once by every stage      *)
(* whose upstream has a forced-return operation, so the innermost source   *)
(* receives exactly one forced-return call if it has that operation and no *)
(* call otherwise; no producer of the chain receives a next or a           *)
(* forced-throw call because of it.                                        *)
(***************************************************************************)
C2_ForwardOnce ==
    [][(/\ Linear(cfg.desc)
        /\ Len(hist') = Len(hist) + 1
        /\ IsReturnCall(hist'[Len(hist')]))
       => LET a == NodesOf(prod)
              b == NodesOf(prod')
          IN  \A i \in DOMAIN a :
                /\ b[i].calls.ret =
                      a[i].calls.ret + (IF HasReturn(a[i]) THEN 1 ELSE 0)
                /\ b[i].calls.next = a[i].calls.next
                /\ b[i].calls.thr = a[i].calls.thr]_vars

\* forced-return on map(f).filter(g) over a generator has reached the
\* generator once
C2_Witness ==
    /\ Linear(cfg.desc)
    /\ cfg.desc.d = "filter" /\ cfg.desc.up.d = "map"
    /\ hist # <<>> /\ IsReturnCall(LastCall)
    /\ Len(ReturnCalls(hist)) = 1
    /\ SourceOf(prod).kind = "Generator"
    /\ SourceOf(prod).calls.ret = 1
    /\ \A i \in DOMAIN NodesOf(prod) : NodesOf(prod)[i].calls.ret = 1

(***************************************************************************)
(* C3 as claimed: after a forced-return call on a producer every later     *)
(* next call reports exhaustion.                                           *)
(***************************************************************************)
C3_ExhaustedAfterReturn ==
    \A i, j \in DOMAIN hist :
        (i < j /\ IsReturnCall(hist[i]) /\ IsNextCall(hist[j]))
            => Exhausted(hist[j])

(***************************************************************************)
(* C4: exhaustion is sticky: once a next call has reported exhaustion,     *)
(* every later next call reports exhaustion too; it neither yields an      *)
(* element nor raises.                                                     *)
(***************************************************************************)
C4_StickyExhaustion ==
    \A i, j \in DOMAIN hist :
        (i < j /\ IsNextCall(hist[i]) /\ Exhausted(hist[i]) /\ IsNextCall(hist[j]))
            => Exhausted(hist[j])

\* filter over range(2): an element, then exhaustion reported twice
C4_Witness ==
    /\ cfg.desc.d = "filter" /\ cfg.desc.up.d = "range"
    /\ Len(hist) >= 3
    /\ \A k \in 1..3 : IsNextCall(hist[k])
    /\ Yielded(hist[1]) /\ Exhausted(hist[2]) /\ Exhausted(hist[3])

(***************************************************************************)
(* C5 as claimed: a Once producer yields its value on the first next call  *)
(* and reports exhaustion on every later next call.                        *)
(***************************************************************************)
C5_OnceYieldsOnce ==
    cfg.desc.d = "once" =>
        LET nx == NextCalls(hist)
        IN  \A k \in DOMAIN nx :
              IF k = 1 THEN Yielded(nx[k]) /\ nx[k].res.value = cfg.desc.value
              ELSE Exhausted(nx[k])

(***************************************************************************)
(* C6: zip over finite collections yields exactly min(lengths) rows, row k *)
(* holding the k-th element of every member, and every next call after     *)
(* them reports exhaustion; zip of a (3 elements) and b (5 elements)       *)
(* yields 3 rows.                                                          *)
(***************************************************************************)
MinLen(ups) ==
    CHOOSE m \in {Len(ups[i].items) : i \in DOMAIN ups} :
        \A i \in DOMAIN ups : m <= Len(ups[i].items)

C6_ZipRows ==
    LET ups == cfg.desc.ups
        nx == NextCalls(hist)
    IN  \A k \in DOMAIN nx :
          IF k <= MinLen(ups)
          THEN /\ Yielded(nx[k])
               /\ nx[k].res.value.ty = "array"
               /\ Len(nx[k].res.value.items) = Len(ups)
               /\ \A i \in DOMAIN ups :
                     nx[k].res.value.items[i] = ups[i].items[k]
          ELSE Exhausted(nx[k])

\* zip(a, b) with 3 and 5 elements: three rows, then exhaustion
C6_Witness ==
    /\ cfg.desc = ZipD(<<ArrayD(Items(0, 3)), ArrayD(Items(10, 5))>>)
    /\ Len(hist) = 4
    /\ \A k \in 1..3 : Yielded(hist[k])
    /\ hist[3].res.value = Arr(<<Num(3), Num(13)>>)
    /\ Exhausted(hist[4])

\* zip(a, b) of the sync family, 3 and 5 elements, at the first next call
\* that reports exhaustion
AtFirstExhaustionOf35 ==
    /\ cfg.family = "sync"
    /\ cfg.desc = ZipD(<<ArrayD(Items(0, 3)), ArrayD(Items(10, 5))>>)
    /\ hist # <<>>
    /\ Exhausted(LastCall)
    /\ \A k \in 1..(Len(hist) - 1) : Yielded(hist[k])

(***************************************************************************)
(* C7 as claimed: when the sync zip(a, b), a of length 3 and b of length   *)
(* 5, first reports exhaustion, b's next has been called exactly 3 times.  *)
(***************************************************************************)
C7_BPolledThreeTimes ==
    AtFirstExhaustionOf35 => prod.iters[2].calls.next = 3

(***************************************************************************)
(* C7 as amended: when the sync zip(a, b), a of length 3 and b of length   *)
(* 5, first reports exhaustion, b's next has been called exactly 4 times:  *)
(* once in each of the three rounds that yield a row and once more in the  *)
(* round in which a reports exhaustion.                                    *)
(***************************************************************************)
C7_BPolledFourTimes ==
    AtFirstExhaustionOf35 =>
        /\ Len(hist) = 4
        /\ prod.iters[1].calls.next = 4
        /\ prod.iters[2].calls.next = 4
        /\ prod.iters[2].pos = 4

C7_Witness ==
    /\ AtFirstExhaustionOf35
    /\ prod.iters[2].calls.next = 4

(***************************************************************************)
(* C8: filter(f) discards the elements for which f returns true: consumed  *)
(* to exhaustion over a finite collection it has yielded exactly the       *)
(* elements for which f returns false, in order, and has called f once per *)
(* element; [1,2,3,4] filtered with x => x % 2 === 0 yields [1,3].         *)
(***************************************************************************)
C8_FilterDiscardsWhenTrue ==
    term.pc = "done" =>
        LET items == cfg.desc.up.items
            Rejected(x) == ~Pred(cfg.desc.f, x).value
        IN  /\ term.acc = Arr(SelectSeq(items, Rejected))
            /\ prod.nF = Len(items)
            /\ (cfg.desc.f = "even" /\ items = Items(0, 4))
                  => term.acc = Arr(<<Num(1), Num(3)>>)

C8_Witness ==
    /\ term.pc = "done"
    /\ cfg.desc.f = "even"
    /\ cfg.desc.up.items = <<Num(1), Num(2), Num(3), Num(4)>>
    /\ term.acc = Arr(<<Num(1), Num(3)>>)
    /\ prod.nF = 4

(***************************************************************************)
(* C9: enumerate(start), start defaulting to 0, pairs the k-th element it  *)
(* emits (k from 0) with start + k, and its counter always equals start    *)
(* plus the number of elements it has emitted through next, forced-return  *)
(* and forced-throw; a call that reports exhaustion leaves it unchanged.   *)
(***************************************************************************)
C9_EnumerateCounter ==
    cfg.desc.d = "enumerate" =>
        LET start == IF cfg.desc.start = NoArg THEN 0 ELSE cfg.desc.start[1]
            ys == YieldedCalls(hist)
        IN  /\ prod.ctr = start + Len(ys)
            /\ \A k \in DOMAIN ys :
                  /\ ys[k].res.value.ty = "array"
                  /\ ys[k].res.value.items[1] = Num(start + k - 1)

\* enumerate(5) over a generator that still yields a value on forced-return
C9_Witness ==
    /\ cfg.desc.d = "enumerate" /\ cfg.desc.start = Arg(5)
    /\ Len(hist) = 3
    /\ IsNextCall(hist[1]) /\ Yielded(hist[1])
    /\ IsReturnCall(hist[2]) /\ Yielded(hist[2])
    /\ hist[2].res.value = Arr(<<Num(6), FinVal>>)
    /\ Exhausted(hist[3])
    /\ prod.ctr = 7

(***************************************************************************)
(* C10: sum, min and max are folds seeded with 0: sum returns 0 plus the   *)
(* sum of the elements, min the least and max the greatest of 0 and the    *)
(* elements; over [5,7,9] min returns 0 and max returns 9, and sum over [] *)
(* returns 0.                                                              *)
(***************************************************************************)
RECURSIVE SeqSum(_)
SeqSum(items) ==
    IF items = <<>> THEN 0 ELSE items[1].n + SeqSum(Tail(items))

WithZero(items) == {0} \cup {items[i].n : i \in DOMAIN items}
Least(S) == CHOOSE m \in S : \A y \in S : m <= y
Greatest(S) == CHOOSE m \in S : \A y \in S : m >= y

C10_FoldsSeededWithZero ==
    term.pc = "done" =>
        LET items == cfg.desc.items
        IN  /\ term.op = "sum" => term.result = Num(SeqSum(items))
            /\ term.op = "min" => term.result = Num(Least(WithZero(items)))
            /\ term.op = "max" => term.result = Num(Greatest(WithZero(items)))
            /\ (term.op = "sum" /\ items = <<>>) => term.result = Num(0)
            /\ (term.op = "min" /\ items = <<Num(5), Num(7), Num(9)>>)
                  => term.result = Num(0)
            /\ (term.op = "max" /\ items = <<Num(5), Num(7), Num(9)>>)
                  => term.result = Num(9)

C10_Witness ==
    /\ term.pc = "done"
    /\ term.op = "min"
    /\ cfg.desc.items = <<Num(5), Num(7), Num(9)>>
    /\ term.result = Num(0)

(***************************************************************************)
(* C11: reduce over a collection of k elements returns None when k = 0     *)
(* and Some of the only element when k = 1, in both cases without          *)
(* invoking f; for k >= 2 it invokes f exactly k - 1 times, the j-th time  *)
(* with the running value and element j + 1, and returns Some of the       *)
(* left-nested fold f(...f(f(x1, x2), x3)..., xk).                         *)
(***************************************************************************)
RECURSIVE FoldLeftSub(_, _)
\* ((x1 - x2) - x3) - ... - xk over the first k items
FoldLeftSub(items, k) ==
    IF k = 1 THEN items[1].n ELSE FoldLeftSub(items, k - 1) - items[k].n

C11_ReduceLeftFold ==
    (term.op = "reduce" /\ term.pc = "done") =>
        LET items == cfg.desc.items
            k == Len(items)
        IN  IF k = 0 THEN term.result = None /\ term.acc = Undefined
            ELSE /\ term.result = Some(Num(FoldLeftSub(items, k)))
                 /\ Len(term.acc.fcalls) = k - 1
                 /\ \A j \in 1..(k - 1) :
                        term.acc.fcalls[j] =
                            <<Num(FoldLeftSub(items, j)), items[j + 1]>>

C11_Witness ==
    /\ cfg.desc.items = <<Num(9), Num(5), Num(7)>>
    /\ term.op = "reduce" /\ term.pc = "done"
    /\ term.result = Some(Num(-3))
    /\ Len(term.acc.fcalls) = 2

(***************************************************************************)
(* C12: an exclusive range with the default step, consumed to exhaustion,  *)
(* yields start, start +/- 1, ... and stops before end: range(5) yields    *)
(* [0,1,2,3,4] and range(5,0) yields [5,4,3,2,1].                          *)
(***************************************************************************)
\* start and end as the caller of range / irange means them
RangeStart(d) == IF d.end = NoArg THEN 0 ELSE d.begin
RangeEnd(d) == IF d.end = NoArg THEN d.begin ELSE d.end[1]
\* start, start + dir, ... of n elements
Progression(start, dir, n) == [i \in 1..n |-> Num(start + dir * (i - 1))]
Distance(d) ==
    IF RangeStart(d) <= RangeEnd(d) THEN RangeEnd(d) - RangeStart(d)
    ELSE RangeStart(d) - RangeEnd(d)
Direction(d) == IF RangeStart(d) <= RangeEnd(d) THEN 1 ELSE -1

C12_ExclusiveRangeFromStart ==
    (cfg.desc.d = "range" /\ ~cfg.desc.incl /\ term.pc = "done") =>
        term.acc = Arr(Progression(RangeStart(cfg.desc), Direction(cfg.desc),
                                   Distance(cfg.desc)))

(***************************************************************************)
(* C13: an inclusive range, consumed to exhaustion, yields the exclusive   *)
(* progression followed by end itself: irange(5) yields [0,1,2,3,4,5].     *)
(***************************************************************************)
C13_InclusiveRangeEndsAtEnd ==
    (cfg.desc.d = "range" /\ cfg.desc.incl /\ term.pc = "done") =>
        term.acc = Arr(Progression(RangeStart(cfg.desc), Direction(cfg.desc),
                                   Distance(cfg.desc) + 1))

(***************************************************************************)
(* C14: when a terminal operation has drained take(n) and the generator    *)
(* under it has yielded an element and still has elements to yield, the    *)
(* generator has received a forced-return.                                 *)
(***************************************************************************)
C14_UpstreamReturnedWhenTakeDrained ==
    (cfg.desc.d = "take" /\ term.pc = "done"
        /\ SourceOf(prod).pos >= 1
        /\ SourceOf(prod).pos < Len(SourceOf(prod).items)) =>
            SourceOf(prod).calls.ret >= 1

(***************************************************************************)
(* C17: nth(n) over a collection of k elements, with m = max(n, 1):        *)
(* if m <= k it pulls m times and returns Some of element m; otherwise it  *)
(* pulls k + 1 times, the last pull being the one that reports             *)
(* exhaustion, and returns None; it never raises.  nth(0) is nth(1).       *)
(***************************************************************************)
C17_NthPullsAndReturns ==
    (term.op = "nth" /\ term.pc = "done") =>
        LET items == cfg.desc.items
            k == Len(items)
            m == MathMax(term.acc.n, 1)
        IN  /\ term.result = IF m <= k THEN Some(items[m]) ELSE None
            /\ SourceOf(prod).calls.next = MathMin(m, k + 1)
            /\ SourceOf(prod).pos = MathMin(m, k)

C17_Witness ==
    /\ term.op = "nth" /\ term.pc = "done"
    /\ cfg.desc.items = <<Num(9), Num(5), Num(7)>>
    /\ term.acc = Num(3)
    /\ term.result = Some(Num(7))
    /\ SourceOf(prod).calls.next = 3

(***************************************************************************)
(* C18: every next call on a zip stage calls next exactly once on every    *)
(* member, also on members behind a member exhausted in that round and on  *)
(* members exhausted in an earlier round; the row it builds holds the      *)
(* members' answers in member order, and it reports exhaustion iff some    *)
(* member reported exhaustion in that round.                               *)
(***************************************************************************)
C18_ZipPollsEveryMember ==
    [][hist' # hist =>
        LET round == [i \in DOMAIN prod.iters |-> IterNext(prod.iters[i])]
            res == hist'[Len(hist')].res
        IN  /\ \A i \in DOMAIN prod.iters :
                  /\ prod'.iters[i].calls.next = prod.iters[i].calls.next + 1
                  /\ prod'.iters[i] = round[i].p
            /\ res.value = Arr([i \in DOMAIN prod.iters |-> round[i].res.value])
            /\ res.done = (\E i \in DOMAIN prod.iters : round[i].res.done)]_vars

\* zip(a, b, c) of 0, 2 and 1 elements after two rounds: a was exhausted
\* from the start, c is exhausted in the second round
C18_Witness ==
    /\ cfg.desc = ZipD(<<ArrayD(Items(0, 0)), ArrayD(Items(10, 2)),
                         ArrayD(Items(20, 1))>>)
    /\ Len(hist) = 2
    /\ \A i \in 1..3 : prod.iters[i].calls.next = 2
    /\ hist[2].res = IterResult(TRUE, Arr(<<Undefined, Num(12), Undefined>>))

(***************************************************************************)
(* C19: after any calls on a zip stage, every member with a return method  *)
(* has received one return call per return call on the zip stage, every    *)
(* member with a throw method one throw call per throw call on the zip     *)
(* stage, and every return and throw call on the zip stage reported        *)
(* exhaustion.                                                             *)
(***************************************************************************)
IsThrowCall(c) == c.op = "throw"
ThrowCalls(h) == SelectSeq(h, IsThrowCall)

C19_ZipFansOutUnconditionally ==
    /\ \A i \in DOMAIN prod.iters :
          /\ HasReturn(prod.iters[i]) =>
                prod.iters[i].calls.ret = Len(ReturnCalls(hist))
          /\ HasThrow(prod.iters[i]) =>
                prod.iters[i].calls.thr = Len(ThrowCalls(hist))
    /\ \A k \in DOMAIN hist :
          hist[k].op \in {"return", "throw"} => Exhausted(hist[k])

(***************************************************************************)
(* C20 as claimed: whatever its counter, a take stage has forwarded every  *)
(* forced-return and every forced-throw it received to its upstream        *)
(* exactly once.                                                           *)
(***************************************************************************)
C20_TakeForwardsEveryForcedCall ==
    cfg.desc.d = "take" =>
        /\ prod.iter.calls.ret = Len(ReturnCalls(hist))
        /\ prod.iter.calls.thr = Len(ThrowCalls(hist))

(***************************************************************************)
(* C20 as amended: a forced-return or forced-throw on a take stage calls   *)
(* the same operation on the upstream exactly once if the upstream has it  *)
(* and makes no upstream call otherwise, the result then being             *)
(* { done: true, value } for return and { done: true, value: undefined }   *)
(* for throw; the counter is unchanged; a failure of the upstream call     *)
(* propagates; a result is reported as exhausted, with the upstream's      *)
(* value, when the counter is zero or less, and returned as is when the    *)
(* counter is positive.                                                    *)
(***************************************************************************)
C20_TakeForcedCall ==
    [][(/\ cfg.desc.d = "take"
        /\ Len(hist') = Len(hist) + 1
        /\ hist'[Len(hist')].op \in {"return", "throw"})
       => LET c == hist'[Len(hist')]
              isRet == c.op = "return"
              has == IF isRet THEN HasReturn(prod.iter) ELSE HasThrow(prod.iter)
          IN  \E v \in ReturnValues, e \in ThrowErrors :
                LET up == IF ~has
                          THEN Outcome(prod.iter,
                                  IterResult(TRUE, IF isRet THEN v ELSE Undefined))
                          ELSE IF isRet THEN IterReturn(prod.iter, v)
                          ELSE IterThrow(prod.iter, e)
                IN  /\ prod'.cnt = prod.cnt
                    /\ prod'.iter = up.p
                    /\ prod'.iter.calls.ret = prod.iter.calls.ret
                            + (IF isRet /\ has THEN 1 ELSE 0)
                    /\ prod'.iter.calls.thr = prod.iter.calls.thr
                            + (IF ~isRet /\ has THEN 1 ELSE 0)
                    /\ prod'.iter.calls.next = prod.iter.calls.next
                    /\ c.res = IF up.res.err # NoErr THEN up.res
                               ELSE IF prod.cnt <= 0
                               THEN IterResult(TRUE, up.res.value)
                               ELSE up.res]_vars

\* take(1) over a generator with a finally block that yields: after one
\* element the counter is 0, and the forced-return the generator answers
\* with a value is reported as exhausted
C20_Witness ==
    /\ cfg.desc = TakeD(GenD(Items(0, MaxLen), TRUE), WideOf(1))
    /\ Len(hist) = 2
    /\ Yielded(hist[1])
    /\ hist[2] = [op |-> "return", res |-> IterResult(TRUE, FinVal)]
    /\ prod.cnt = 0
    /\ prod.iter.calls.ret = 1

(***************************************************************************)
(* C15: in a chain of async stages every frame waits for a call it made    *)
(* before it makes the next one, a zip stage included: of two calls made   *)
(* by the same frame the earlier has been answered and resumed from; and   *)
(* while the consumer has at most one pending call on the outermost stage, *)
(* every frame has at most one pending call on its upstream and every      *)
(* object of the chain at most one pending call.                           *)
(***************************************************************************)
PendingCallsOf(id) ==
    {c \in DOMAIN tasks : Unfinished(tasks[c]) /\ tasks[c].parent = id}
PendingCallsAt(path) ==
    {c \in DOMAIN tasks : Unfinished(tasks[c]) /\ tasks[c].node = path}

C15_OneCallInFlight ==
    /\ \A c1, c2 \in DOMAIN tasks :
          (c1 < c2 /\ tasks[c1].parent # 0 /\ tasks[c1].parent = tasks[c2].parent)
            => tasks[c1].pc = "done"
    /\ Len(SelectSeq(tasks, PendingFromConsumer)) <= 1 =>
          /\ \A id \in DOMAIN tasks : Cardinality(PendingCallsOf(id)) <= 1
          /\ \A id \in DOMAIN tasks :
                Cardinality(PendingCallsAt(tasks[id].node)) <= 1

\* a zip stage waits for its second member after its first member answered
C15_Witness ==
    /\ cfg.desc.d = "zip"
    /\ Len(SelectSeq(tasks, PendingFromConsumer)) = 1
    /\ \E c1, c2 \in DOMAIN tasks :
          /\ tasks[c1].parent = tasks[c2].parent
          /\ tasks[c1].node = <<1>> /\ tasks[c1].pc = "done"
          /\ tasks[c2].node = <<2>> /\ Unfinished(tasks[c2])
          /\ tasks[tasks[c2].parent].pc = "up"

(***************************************************************************)
(* C16: once every call of a consumer that awaits each call before the     *)
(* next has been answered, the async chain has returned the results the    *)
(* sync chain of the same stages over the same collections and generators  *)
(* returns for the same calls, has left those collections and generators   *)
(* in the same state after the same number of next / return / throw calls, *)
(* and has invoked its callbacks as often; negative take counts included.  *)
(***************************************************************************)
\* the sync chain after the calls cs
RECURSIVE SyncAfter(_)
SyncAfter(cs) ==
    IF cs = <<>> THEN [p |-> Build("sync", cfg.desc), h |-> <<>>]
    ELSE LET before == SyncAfter(SubSeq(cs, 1, Len(cs) - 1))
             c == cs[Len(cs)]
             o == IterCall(before.p, c.op, c.arg)
         IN  [p |-> o.p, h |-> Append(before.h, [op |-> c.op, res |-> o.res])]

\* the foreign iterators under a chain, left to right
RECURSIVE Leaves(_)
RECURSIVE LeavesOfAll(_, _)
LeavesOfAll(iters, i) ==
    IF i > Len(iters) THEN <<>> ELSE Leaves(iters[i]) \o LeavesOfAll(iters, i + 1)
Leaves(p) ==
    CASE p.kind \in {"ArrayIterator", "Generator", "Range"} -> <<p>>
      [] p.kind = "Zip" -> LeavesOfAll(p.iters, 1)
      [] "iter" \in DOMAIN p -> Leaves(p.iter)
      [] OTHER -> <<>>

\* the counters a stage keeps: enumerate's ctr, the callback invocations
RECURSIVE StageCounters(_)
StageCounters(p) ==
    IF p.kind \in {"IterWrapper", "StreamWrapper"} \/ "iter" \notin DOMAIN p THEN <<>>
    ELSE <<IF "ctr" \in DOMAIN p THEN p.ctr
           ELSE IF "nF" \in DOMAIN p THEN p.nF ELSE 0>> \o StageCounters(p.iter)

AllAnswered == \A id \in DOMAIN tasks : tasks[id].pc = "done"

C16_SyncAsyncAgree ==
    (~cfg.overlap /\ AllAnswered) =>
        LET sync == SyncAfter(SelectSeq(tasks, FromConsumer))
        IN  /\ hist = sync.h
            /\ Leaves(prod) = Leaves(sync.p)
            /\ StageCounters(prod) = StageCounters(sync.p)

\* take(-1) over a generator: next, then return
C16_Witness ==
    /\ ~cfg.overlap /\ AllAnswered
    /\ cfg.desc = TakeD(GenD(Items(0, MaxAsyncLen), TRUE), Wide(-1, 65535))
    /\ Len(hist) = 2
    /\ hist[1] = [op |-> "next", res |-> IterResult(TRUE, Undefined)]
    /\ hist[2].op = "return"
    /\ prod.cnt = -1

(***************************************************************************)
(* C21: next, forced-return and forced-throw on a map stage first make the *)
(* same call on the upstream (or, when the upstream lacks the forced       *)
(* operation, take the exhausted result the stage builds itself) and then  *)
(* react to its result: an exhausted result is passed through untouched    *)
(* and f is not invoked; a result that carries a value has f applied to    *)
(* that value exactly once and the stage answers with f's value as a       *)
(* non-exhausted result (or with f's failure).                             *)
(***************************************************************************)
\* what the upstream of the outermost stage answers to the call c
Forwarded(c) ==
    CASE c.op = "next" -> {IterNext(prod.iter)}
      [] c.op = "return" ->
            {IF HasReturn(prod.iter) THEN IterReturn(prod.iter, v)
             ELSE Outcome(prod.iter, IterResult(TRUE, v)) : v \in ReturnValues}
      [] c.op = "throw" ->
            {IF HasThrow(prod.iter) THEN IterThrow(prod.iter, e)
             ELSE Outcome(prod.iter, IterResult(TRUE, Undefined)) : e \in ThrowErrors}

C21_MapForwardsThenApplies ==
    [][(cfg.desc.d = "map" /\ Len(hist') = Len(hist) + 1)
       => LET c == hist'[Len(hist')]
          IN  \E up \in Forwarded(c) :
                /\ prod'.iter = up.p
                /\ IF up.res.err # NoErr \/ up.res.done
                   THEN c.res = up.res /\ prod'.nF = prod.nF
                   ELSE LET y == MapFn(prod.f, up.res.value)
                        IN  /\ prod'.nF = prod.nF + 1
                            /\ c.res = IF y.err # NoErr THEN Raised(y.err)
                                       ELSE IterResult(FALSE, y.value)]_vars

\* map(x => x + 1) over a generator whose finally block yields: next gives
\* 2, the forced-return the generator answers with FinVal gives FinVal + 1,
\* and the next call passes the generator's exhaustion through
C21_Witness ==
    /\ cfg.desc = MapD(GenD(Items(0, MaxLen), TRUE), "inc")
    /\ Len(hist) = 3
    /\ hist[1] = [op |-> "next", res |-> IterResult(FALSE, Num(2))]
    /\ hist[2] = [op |-> "return", res |-> IterResult(FALSE, Num(FinVal.n + 1))]
    /\ hist[3].op = "next" /\ Exhausted(hist[3])
    /\ prod.nF = 2
    /\ prod.iter.calls.ret = 1

(***************************************************************************)
(* C22: forced-return or forced-throw on a wrapper around a foreign        *)
(* iterator that lacks the operation reports exhaustion at once            *)
(* ({ done: true, value } for return, { done: true, value: undefined } for *)
(* throw) and has no side effect: the foreign iterator receives no call    *)
(* and keeps its position, so the next pull yields what it would have      *)
(* yielded without the forced call.                                        *)
(***************************************************************************)
C22_WrapperForcedCallWithoutTarget ==
    [][(/\ prod.kind \in {"IterWrapper", "StreamWrapper"}
        /\ Len(hist') = Len(hist) + 1
        /\ \/ hist'[Len(hist')].op = "return" /\ ~HasReturn(prod.iter)
           \/ hist'[Len(hist')].op = "throw" /\ ~HasThrow(prod.iter))
       => LET c == hist'[Len(hist')]
          IN  /\ prod'.iter = prod.iter
              /\ prod'.iter.calls = prod.iter.calls
              /\ IterNext(prod').res = IterNext(prod).res
              /\ \/ c.op = "return" /\ \E v \in ReturnValues : c.res = IterResult(TRUE, v)
                 \/ c.op = "throw" /\ c.res = IterResult(TRUE, Undefined)]_vars

\* iter([1, 2]): next yields 1, return(9) reports exhaustion without a call
\* on the array iterator, and the pull after it yields 2
C22_Witness ==
    /\ cfg.desc = ArrayD(Items(0, 2))
    /\ Len(hist) = 3
    /\ hist[1] = [op |-> "next", res |-> IterResult(FALSE, Num(1))]
    /\ hist[2] = [op |-> "return", res |-> IterResult(TRUE, Num(9))]
    /\ hist[3] = [op |-> "next", res |-> IterResult(FALSE, Num(2))]
    /\ prod.iter.pos = 2
    /\ prod.iter.calls = [next |-> 2, ret |-> 0, thr |-> 0]

(***************************************************************************)
(* C23: forced-throw on a take, enumerate, map, filter or filterMap stage  *)
(* whose upstream has no throw method raises nothing, makes no call on the *)
(* upstream (no next, no return), invokes no callback and answers          *)
(* { done: true, value: undefined }.                                       *)
(***************************************************************************)
SingleUpstreamStages == {"take", "enumerate", "map", "filter", "filterMap"}

C23_ThrowWithoutUpstreamThrow ==
    [][(/\ cfg.desc.d \in SingleUpstreamStages
        /\ ~HasThrow(prod.iter)
        /\ Len(hist') = Len(hist) + 1
        /\ hist'[Len(hist')].op = "throw")
       => /\ hist'[Len(hist')].res = IterResult(TRUE, Undefined)
          /\ prod'.iter = prod.iter
          /\ "nF" \in DOMAIN prod => prod'.nF = prod.nF
          /\ "ctr" \in DOMAIN prod => prod'.ctr = prod.ctr
          /\ "cnt" \in DOMAIN prod => prod'.cnt = prod.cnt]_vars

\* range(2).map(x => x + 1): next yields, throw(E) reports exhaustion and
\* the range has received its one next call only
C23_Witness ==
    /\ cfg.family = "sync"
    /\ cfg.desc = MapD(RangeD(2, NoArg, NoArg, FALSE), "inc")
    /\ Len(hist) = 2
    /\ hist[1].op = "next" /\ Yielded(hist[1])
    /\ hist[2] = [op |-> "throw", res |-> IterResult(TRUE, Undefined)]
    /\ prod.iter.kind = "Range"
    /\ prod.iter.calls = [next |-> 1, ret |-> 0, thr |-> 0]
    /\ prod.nF = 1

(***************************************************************************)
(* C24: all and any do not short-circuit: over a finite producer of        *)
(* booleans they pull until a pull reports exhaustion, also after a false  *)
(* (all) or a true (any), so the producer's next has been called           *)
(* length + 1 times when they return, and it has received no return; the   *)
(* result is the conjunction (all, true when empty) or the disjunction     *)
(* (any, false when empty) of all elements.                                *)
(***************************************************************************)
C24_AllAnyPullToExhaustion ==
    (term.op \in {"all", "any"} /\ term.pc = "done") =>
        LET items == cfg.desc.items
        IN  /\ SourceOf(prod).calls = [next |-> Len(items) + 1, ret |-> 0, thr |-> 0]
            /\ term.op = "all" =>
                  term.result = Bool(\A k \in DOMAIN items : items[k].b)
            /\ term.op = "any" =>
                  term.result = Bool(\E k \in DOMAIN items : items[k].b)

\* all() over [false, true, true] returns false after four pulls
C24_Witness ==
    /\ term.op = "all" /\ term.pc = "done"
    /\ cfg.desc = ArrayD(<<Bool(FALSE), Bool(TRUE), Bool(TRUE)>>)
    /\ term.result = Bool(FALSE)
    /\ prod.iter.calls.next = 4

(***************************************************************************)
(* C25: find(f) and findMap(f) call f on the k-th pulled element with      *)
(* index k, counted from 0; they return Some of the first element for      *)
(* which f is true (find) or the first present option f returns (findMap), *)
(* None if the producer is exhausted first; they pull no element beyond    *)
(* the first match and send the producer no forced-return.                 *)
(***************************************************************************)
\* does f match the k-th element (k from 1) of items?
Matches(op, f, items, k) ==
    IF op = "find" THEN FindPred(f, items[k], k - 1)
    ELSE FindOpt(f, items[k], k - 1).some

C25_FindStopsAtFirstMatch ==
    (term.op \in {"find", "findMap"} /\ term.pc = "done") =>
        LET items == cfg.desc.items
            hits == {k \in DOMAIN items : Matches(term.op, term.f, items, k)}
            first == IF hits = {} THEN Len(items)
                     ELSE CHOOSE k \in hits : \A j \in hits : k <= j
        IN  /\ term.fcalls = [k \in 1..first |-> <<items[k], k - 1>>]
            /\ term.result =
                  IF hits = {} THEN None
                  ELSE IF term.op = "find" THEN Some(items[first])
                  ELSE Some(FindOpt(term.f, items[first], first - 1).value)
            /\ prod.calls = [next |-> IF hits = {} THEN Len(items) + 1 ELSE first,
                             ret |-> 0, thr |-> 0]
            /\ SourceOf(prod).pos = (IF hits = {} THEN Len(items) ELSE first)
            /\ SourceOf(prod).calls.ret = 0

\* findMap((x, i) => x === 3 ? Some(i) : None) over a generator of 1, 3, 4
\* returns Some(1) after two pulls and leaves the generator suspended
C25_Witness ==
    /\ term.op = "findMap" /\ term.pc = "done" /\ term.f = "indexOfThree"
    /\ cfg.desc = GenD(<<Num(1), Num(3), Num(4)>>, FALSE)
    /\ term.result = Some(Num(1))
    /\ term.fcalls = <<<<Num(1), 0>>, <<Num(3), 1>>>>
    /\ SourceOf(prod).st = "try"
    /\ SourceOf(prod).calls = [next |-> 2, ret |-> 0, thr |-> 0]

(***************************************************************************)
(* C26: filterMap(f).next pulls the upstream until f returns a present     *)
(* option or the upstream is exhausted: pulled by next alone over a finite *)
(* upstream the stage has yielded the payloads of the present results of f *)
(* in upstream order, all of them once it has reported exhaustion, and has *)
(* pulled no further than the element of its last answer.  A forced-return *)
(* or forced-throw is forwarded once; an exhausted answer is passed        *)
(* through, a value for which f returns a present option is yielded as its *)
(* payload, and a value for which f returns absent makes the stage report  *)
(* exhaustion without pulling again.                                       *)
(***************************************************************************)
Present(x) == OptFn(cfg.desc.f, x).some
Payload(x) == OptFn(cfg.desc.f, x).value

\* the number of elements pulled to find n present ones among items
RECURSIVE PulledFor(_, _)
PulledFor(items, n) ==
    IF n = 0 \/ items = <<>> THEN 0
    ELSE 1 + PulledFor(Tail(items), IF Present(Head(items)) THEN n - 1 ELSE n)

C26_FilterMapYieldsPayloads ==
    /\ []((cfg.desc.up.d = "array" /\ \A k \in DOMAIN hist : IsNextCall(hist[k]))
          => LET items == cfg.desc.up.items
                 kept == SelectSeq(items, Present)
                 out == YieldedCalls(hist)
             IN  /\ Len(out) <= Len(kept)
                 /\ \A k \in DOMAIN out : out[k].res.value = Payload(kept[k])
                 /\ Len(out) < Len(hist) => Len(out) = Len(kept)
                 /\ SourceOf(prod).pos =
                        IF Len(out) < Len(hist) THEN Len(items)
                        ELSE PulledFor(items, Len(out))
                 /\ prod.nF = SourceOf(prod).pos)
    /\ [][(/\ Len(hist') = Len(hist) + 1
           /\ hist'[Len(hist')].op \in {"return", "throw"})
          => LET c == hist'[Len(hist')]
             IN  \E up \in Forwarded(c) :
                   /\ prod'.iter = up.p
                   /\ prod'.iter.calls.next = prod.iter.calls.next
                   /\ IF up.res.err # NoErr \/ up.res.done
                      THEN c.res = up.res /\ prod'.nF = prod.nF
                      ELSE /\ prod'.nF = prod.nF + 1
                           /\ IF Present(up.res.value)
                              THEN c.res = IterResult(FALSE, Payload(up.res.value))
                              ELSE /\ Exhausted(c)
                                   /\ c.op = "return" => c.res.value \in ReturnValues
                                   /\ c.op = "throw" => c.res.value = Undefined]_vars

\* filterMap(x => x > 0 ? Some(x) : None) over a generator whose finally
\* block yields 0: after one element, return(9) is answered by the generator
\* with 0, f returns None, and the stage reports exhaustion with 9 while the
\* generator is still suspended in its finally block
C26_Witness ==
    /\ cfg.family = "sync"
    /\ cfg.desc = FilterMapD(GenD(<<Num(0), Num(3)>>, TRUE), "positive")
    /\ Len(hist) = 2
    /\ hist[1] = [op |-> "next", res |-> IterResult(FALSE, Num(3))]
    /\ hist[2] = [op |-> "return", res |-> IterResult(TRUE, Num(9))]
    /\ prod.nF = 3
    /\ prod.iter.st = "finally"
    /\ prod.iter.calls = [next |-> 2, ret |-> 1, thr |-> 0]

(***************************************************************************)
(* C27: a failure raised by the callback of a map, filter or filterMap     *)
(* stage inside next is not caught by the stage: the call raises the       *)
(* callback's failure exactly when the first element the stage does not    *)
(* skip is one the callback refuses; that element and the skipped ones     *)
(* before it are consumed from the upstream, and the upstream has received *)
(* neither a forced-return nor a forced-throw from the stage.              *)
(***************************************************************************)
\* does the outermost stage go on pulling after the element x?
Skips(x) ==
    CASE cfg.desc.d = "map" -> FALSE
      [] cfg.desc.d = "filter" ->
            Pred(cfg.desc.f, x).err = NoErr /\ Pred(cfg.desc.f, x).value
      [] cfg.desc.d = "filterMap" ->
            OptFn(cfg.desc.f, x).err = NoErr /\ ~OptFn(cfg.desc.f, x).some

\* the upstream pulled until it answers with something the stage does not
\* skip; n counts the elements pulled
RECURSIVE FirstKept(_, _)
FirstKept(up, n) ==
    LET o == IterNext(up)
    IN  IF o.res.err # NoErr \/ o.res.done THEN [p |-> o.p, res |-> o.res, n |-> n]
        ELSE IF Skips(o.res.value) THEN FirstKept(o.p, n + 1)
        ELSE [p |-> o.p, res |-> o.res, n |-> n + 1]

C27_CallbackFailurePropagates ==
    [][(/\ cfg.desc.d \in {"map", "filter", "filterMap"}
        /\ cfg.desc.f = "failOn2"
        /\ Len(hist') = Len(hist) + 1
        /\ hist'[Len(hist')].op = "next")
       => LET c == hist'[Len(hist')]
              k == FirstKept(prod.iter, 0)
          IN  /\ c.res = Raised(Failure) <=> k.res = IterResult(FALSE, Refused)
              /\ c.res = Raised(Failure) =>
                    /\ prod'.iter = k.p
                    /\ k.n >= 1
                    /\ prod'.nF = prod.nF + k.n
                    /\ prod'.iter.calls.ret = prod.iter.calls.ret
                    /\ prod'.iter.calls.thr = prod.iter.calls.thr]_vars

\* a filter whose predicate refuses 2, over a generator of 1, 2: the first
\* next yields 1, the second raises F and leaves the generator suspended
\* after 2 with no return sent, and the third reports exhaustion
C27_Witness ==
    /\ cfg.family = "sync"
    /\ cfg.desc = FilterD(GenD(Items(0, MaxLen), FALSE), "failOn2")
    /\ Len(hist) = 3
    /\ hist[1] = [op |-> "next", res |-> IterResult(FALSE, Num(1))]
    /\ hist[2] = [op |-> "next", res |-> Raised(Failure)]
    /\ hist[3].op = "next" /\ (MaxLen = 2 => Exhausted(hist[3]))
    /\ prod.iter.calls = [next |-> 3, ret |-> 0, thr |-> 0]
    /\ prod.nF >= 2

(***************************************************************************)
(* C28 as claimed: when the callback of forEach, fold or reduce has raised *)
(* and its failure has reached the caller, the producer the operation was  *)
(* called on has received exactly one forced-return.                       *)
(***************************************************************************)
CallbackRaised == term.pc = "raised" /\ term.result = [ty |-> "error", e |-> Failure]

C28_ProducerReturnedOnCallbackFailure ==
    CallbackRaised => prod.calls.ret = 1

(***************************************************************************)
(* C28 as amended: when the callback of forEach, fold or reduce raises,    *)
(* the iterator the loop pulls from (the producer itself, or the foreign   *)
(* iterator when the producer is a sync wrapper) receives exactly one      *)
(* forced-return if it has a return method and no call if it has none,     *)
(* before the failure reaches the caller; a sync wrapper itself receives   *)
(* no call; the failure that reaches the caller is the callback's; no      *)
(* forced-return is sent while the loop runs.                              *)
(***************************************************************************)
\* this[Symbol.iterator]() / this[Symbol.asyncIterator]() of the producer
Pulled == IF prod.kind = "IterWrapper" THEN prod.iter ELSE prod

C28_LoopIteratorReturnedOnCallbackFailure ==
    /\ term.pc = "raised" => term.result = [ty |-> "error", e |-> Failure]
    /\ CallbackRaised =>
          /\ Pulled.calls.ret = (IF HasReturn(Pulled) THEN 1 ELSE 0)
          /\ Pulled.calls.thr = 0
          /\ prod.kind = "IterWrapper" => prod.calls.ret = 0
    /\ term.pc \in {"loop", "done"} => Pulled.calls.ret = 0

\* iter(g).map(x => x + 1).forEach(f) over a generator of 1, 2 with a
\* finally block: f raises on the first element, 2, and the map stage and
\* through it the generator have received one return
C28_Witness ==
    /\ CallbackRaised
    /\ term.op = "forEach"
    /\ cfg.family = "sync"
    /\ cfg.desc = MapD(GenD(Items(0, MaxLen), TRUE), "inc")
    /\ prod.calls = [next |-> 1, ret |-> 1, thr |-> 0]
    /\ prod.iter.calls = [next |-> 1, ret |-> 1, thr |-> 0]
    /\ prod.iter.st = "finally"

(***************************************************************************)
(* C29: an async take(n) keeps its bound when the consumer issues next     *)
(* calls without awaiting the earlier ones: its upstream has received at   *)
(* most n next calls and the foreign iterator behind it has been pulled at *)
(* most n times, because the test and the decrement of the counter happen  *)
(* before the call suspends; the counter is never negative and accounts    *)
(* for every upstream call.                                                *)
(***************************************************************************)
C29_TakeStreamBoundUnderOverlap ==
    (cfg.desc.d = "take" /\ cfg.desc.n.hi = 0 /\ cfg.overlap) =>
        LET n == cfg.desc.n.lo
        IN  /\ prod.iter.calls.next <= n
            /\ SourceOf(prod).calls.next <= n
            /\ prod.cnt >= 0
            /\ prod.iter.calls.next = n - prod.cnt
            /\ Len(YieldedCalls(NextCalls(hist))) <= n

\* take(2) with three next calls issued before any is answered: the
\* upstream has received two calls and the counter is 0
C29_Witness ==
    /\ cfg.overlap
    /\ cfg.desc = TakeD(ArrayD(Items(0, MaxOverlapTake + 1)), WideOf(2))
    /\ Len(SelectSeq(tasks, PendingFromConsumer)) = 3
    /\ \A id \in DOMAIN tasks : FromConsumer(tasks[id]) => tasks[id].op = "next"
    /\ hist = <<>>
    /\ prod.cnt = 0
    /\ prod.iter.calls.next = 2

(***************************************************************************)
(* C30: for every non-negative integer n, 2^31 and beyond included, over   *)
(* an upstream with at least n elements, take(n) pulled by next yields its *)
(* first n answers and reports exhaustion afterwards.                      *)
(***************************************************************************)
\* k <= n, for a non-negative n = hi * 2^16 + lo
AtMost(k, n) == n.hi > 0 \/ k <= n.lo

C30_TakeYieldsExactlyN ==
    (cfg.desc.d = "take" /\ \A k \in DOMAIN hist : IsNextCall(hist[k])) =>
        \A k \in DOMAIN hist :
            IF AtMost(k, cfg.desc.n) THEN Yielded(hist[k]) ELSE Exhausted(hist[k])

====
